---- MODULE Spec2Model ----
(***************************************************************************)
(* Model of the annotation state engine of the YouTube Notes application   *)
(* (src/app.js, class YouTubeNotesApp): the people list, the notes list,   *)
(* the filter, the timestamp parser, export / save-as / load / import /    *)
(* reset and the localStorage slot.                                        *)
(*                                                                         *)
(* Strings are sequences of one-character strings, so that trim, the       *)
(* regular expression of parseTimestamp and parseFloat are computed        *)
(* character by character as the JavaScript runtime computes them.         *)
(***************************************************************************)
EXTENDS Integers, Sequences, FiniteSets, TLC

\* ------------------------------------------------------------------ bounds
MaxInputLen == 4    \* longest timestamp input string drawn
MaxNotes == 2       \* most notes held by the Store
MaxClock == 1       \* last value of the wall clock (Date.now)
MaxTime == 1        \* last playback position / timestamp drawn
MaxReads == 1       \* most file reads pending at once
MaxOverlap == 2     \* most file reads pending at once when loads overlap
MaxStore == 3       \* most notes of a Store handed to the filter
MaxPeople == 2      \* most entries of a Registry drawn
MaxRetries == 3     \* most calls of createPlayer waiting on a timeout
MaxHandles == 3     \* most timer handles setInterval gives out

\* ------------------------------------------------------------ characters
Digits == <<"0", "1", "2", "3", "4", "5", "6", "7", "8", "9">>

IsDigit(c) == \E i \in 1..Len(Digits) : Digits[i] = c

DigitVal(c) == (CHOOSE i \in 1..Len(Digits) : Digits[i] = c) - 1

IsSpace(c) == c = " "

\* the characters timestamp inputs are drawn from
InputAlphabet == {"0", "1", "3", "5", "6", "9", ":", "-", ".", " ", "a"}

AllDigits(s) == \A i \in 1..Len(s) : IsDigit(s[i])

\* String.prototype.trim: leading and trailing white space removed
RECURSIVE TrimLeft(_)
TrimLeft(s) ==
    IF s # <<>> /\ IsSpace(Head(s)) THEN TrimLeft(Tail(s)) ELSE s

RECURSIVE TrimRight(_)
TrimRight(s) ==
    IF s # <<>> /\ IsSpace(s[Len(s)])
    THEN TrimRight(SubSeq(s, 1, Len(s) - 1))
    ELSE s

Trim(s) == TrimRight(TrimLeft(s))

\* ------------------------------------------------------------- numbers
\* A JavaScript number of the model is a decimal: (-1)^neg * num / 10^exp,
\* with no trailing zero in the fraction; NaN is a value of its own.
NaN == [nan |-> TRUE, neg |-> FALSE, num |-> 0, exp |-> 0]

Num(n) == [nan |-> FALSE, neg |-> FALSE, num |-> n, exp |-> 0]

\* the value null returned by parseTimestamp
Null == [null |-> TRUE]

RECURSIVE ToNat(_)
ToNat(ds) ==
    IF ds = <<>> THEN 0
    ELSE 10 * ToNat(SubSeq(ds, 1, Len(ds) - 1)) + DigitVal(ds[Len(ds)])

\* the longest prefix of digits
RECURSIVE DigitPrefix(_)
DigitPrefix(s) ==
    IF s # <<>> /\ IsDigit(Head(s))
    THEN <<Head(s)>> \o DigitPrefix(Tail(s))
    ELSE <<>>

RECURSIVE DropTrailingZeros(_)
DropTrailingZeros(ds) ==
    IF ds # <<>> /\ ds[Len(ds)] = "0"
    THEN DropTrailingZeros(SubSeq(ds, 1, Len(ds) - 1))
    ELSE ds

\* a conversion that stops at the decimal point, as parseInt does
parseFloatWhole(s) ==
    LET t == TrimLeft(s)
        neg == t # <<>> /\ Head(t) = "-"
        u == IF t # <<>> /\ Head(t) \in {"+", "-"} THEN Tail(t) ELSE t
        ip == DigitPrefix(u)
    IN  IF ip = <<>> THEN NaN
        ELSE [nan |-> FALSE, neg |-> neg /\ ToNat(ip) # 0, num |-> ToNat(ip),
              exp |-> 0]

\* parseFloat: leading white space skipped, then the longest prefix that is
\* a decimal literal (sign, digits, fraction); anything after it is ignored;
\* NaN when there is no such prefix.
parseFloat(s) ==
    LET t == TrimLeft(s)
        signed == t # <<>> /\ Head(t) \in {"+", "-"}
        neg == t # <<>> /\ Head(t) = "-"
        u == IF signed THEN Tail(t) ELSE t
        ip == DigitPrefix(u)
        r == SubSeq(u, Len(ip) + 1, Len(u))
        fp == IF r # <<>> /\ Head(r) = "." THEN DigitPrefix(Tail(r)) ELSE <<>>
        fz == DropTrailingZeros(fp)
        n == ToNat(ip \o fz)
    IN  IF ip = <<>> /\ fp = <<>> THEN NaN
        ELSE [nan |-> FALSE, neg |-> neg /\ n # 0, num |-> n, exp |-> Len(fz)]

\* a test that only asks for a number
NotNaN(v) == ~v.nan

\* seconds >= 0 of a JavaScript number (false for NaN)
GeqZero(v) == ~v.nan /\ ~v.neg

\* input.match(/^(\d+):(\d{2})$/)
timeMatch(s) ==
    /\ Len(s) >= 4
    /\ s[Len(s) - 2] = ":"
    /\ AllDigits(SubSeq(s, 1, Len(s) - 3))
    /\ AllDigits(SubSeq(s, Len(s) - 1, Len(s)))

\* the two groups of the match, through parseInt
matchMinutes(s) == ToNat(SubSeq(s, 1, Len(s) - 3))

matchSecs(s) == ToNat(SubSeq(s, Len(s) - 1, Len(s)))

\* parseTimestamp(input)
parseTimestamp(input) ==
    IF input = <<>> THEN Null
    ELSE LET seconds == parseFloat(input)
         IN  IF GeqZero(seconds) THEN seconds
             ELSE IF timeMatch(input) /\ matchSecs(input) < 60
                  THEN Num(matchMinutes(input) * 60 + matchSecs(input))
                  ELSE Null

\* ------------------------------------------------------------------ values
\* null / undefined where a number or a time is expected
Absent == -1

\* this.videoId = null
NullId == "null"

\* `https://www.youtube.com/watch?v=${videoId}`, and '' as the empty sequence
Url(v) == <<"https://www.youtube.com/watch?v=", v>>

NoUrl == <<>>

\* localStorage.getItem('youtubeNotesData') of a slot never written
NoSlot == [empty |-> TRUE]

Range(seq) == {seq[i] : i \in 1..Len(seq)}

\* p => p.trim(), as a truth value
\* a test that every entry passes
AnyEntry(p) == TRUE

NonBlank(p) == Trim(p) # <<>>

\* ------------------------------------------------------------------ state
VARIABLES
    input,        \* the string handed to parseTimestamp
    parsed,       \* what parseTimestamp returned for it, NotParsed before
    people,       \* this.people
    notes,        \* this.notes
    videoId,      \* this.videoId
    videoUrl,     \* this.videoUrl
    currentTime,  \* this.currentTime
    slot,         \* localStorage['youtubeNotesData']
    storageFull,  \* localStorage.setItem throws (the quota is exceeded)
    player,       \* this.player: "none", "created" (onReady to come), "ready"
    apiReady,     \* YT.Player is defined: the IFrame API has loaded
    retries,      \* the video ids of the createPlayer calls waiting on a timeout
    playerVideo,  \* the video this.player was last given
    isVideoLoaded,    \* this.isVideoLoaded
    instances,        \* the YT.Player objects made and not destroyed
    currentSource,    \* this.currentSource
    updateInterval,   \* this.updateInterval: a timer handle, 0 for null
    timers,           \* the handles of the intervals the page has running
    handles,          \* how many handles setInterval has given out
    metadataPending,  \* the video element has a src whose metadata is to come
    capturedTimestamp,    \* this.capturedTimestamp, Absent for null
    timestampField,   \* the value of the #note-timestamp input
    videoElement,     \* webcamController.videoElement exists
    sought,           \* the time last given to player.seekTo or assigned to
                      \* videoElement.currentTime, Absent before
    stream,           \* webcamController.stream is there
    isRecording,      \* webcamController.isRecording
    isPaused,         \* webcamController.isPaused
    isRecordingTime,  \* this.isRecordingTime
    recorderLive,     \* the MediaRecorder is recording or paused
    stopping,         \* mediaRecorder.stop() was called, onstop is to come
    selected,     \* values of the selected options of #people-filter
    filterMode,   \* value of #filter-mode
    now,          \* Date.now()
    reads,        \* FileReader reads that have not completed
    msg,          \* what the handler that ran last showed: "none", "success", "error"
    op,           \* the handler that ran last
    answer,       \* what confirm() returned to it: "yes", "no"; "none" if it did not ask
    filtered,     \* what getFilteredNotes() returned
    embeddedFiltered, \* what the generated document's getFilteredNotes() returned
    html,         \* the document generateSelfContainedHTML wrote last, NoHtml before
    embedded      \* the application object of the opened document, NotOpened before

parseVars == <<input, parsed>>

filterVars == <<filtered, embeddedFiltered>>

docVars == <<html, embedded>>

playerVars == <<apiReady, retries, playerVideo, isVideoLoaded, instances>>

formVars == <<capturedTimestamp, timestampField>>

seekVars == <<videoElement, sought>>

webcamVars == <<stream, isRecording, isPaused, isRecordingTime, recorderLive,
                stopping>>

mediaVars == <<currentSource, updateInterval, timers, handles, metadataPending,
               formVars, seekVars, webcamVars>>

appVars == <<people, notes, videoId, videoUrl, currentTime, slot, storageFull, player, playerVars, selected,
             filterMode, now, reads, msg, op, answer, filterVars, docVars,
             mediaVars>>

vars == <<input, parsed, people, notes, videoId, videoUrl, currentTime, slot, storageFull, player, playerVars,
          selected, filterMode, now, reads, msg, op, answer, filtered,
          embeddedFiltered, html, embedded, currentSource, updateInterval,
          timers, handles, metadataPending, capturedTimestamp, timestampField,
          videoElement, sought, stream, isRecording, isPaused, isRecordingTime,
          recorderLive, stopping>>

NotParsed == [pending |-> TRUE]

\* nothing was filtered yet: no Note is listed
NotFiltered == <<>>

NoHtml == [written |-> FALSE]

NotOpened == [opened |-> FALSE]

Inputs == UNION {[1..n -> InputAlphabet] : n \in 0..MaxInputLen}

\* the fields of the application object the handlers below read and write
Cur ==
    [people |-> people, notes |-> notes, videoId |-> videoId,
     videoUrl |-> videoUrl, currentTime |-> currentTime, slot |-> slot,
     storageFull |-> storageFull, player |-> player,
     apiReady |-> apiReady, retries |-> retries,
     playerVideo |-> playerVideo, isVideoLoaded |-> isVideoLoaded,
     instances |-> instances,
     selected |-> selected]

Becomes(s) ==
    /\ people' = s.people
    /\ notes' = s.notes
    /\ videoId' = s.videoId
    /\ videoUrl' = s.videoUrl
    /\ currentTime' = s.currentTime
    /\ slot' = s.slot
    /\ storageFull' = s.storageFull
    /\ player' = s.player
    /\ apiReady' = s.apiReady
    /\ retries' = s.retries
    /\ playerVideo' = s.playerVideo
    /\ isVideoLoaded' = s.isVideoLoaded
    /\ instances' = s.instances
    /\ selected' = s.selected

\* constructor()
Fresh ==
    [people |-> <<>>, notes |-> <<>>, videoId |-> NullId, videoUrl |-> NoUrl,
     currentTime |-> 0, slot |-> NoSlot, storageFull |-> FALSE,
     player |-> "none", apiReady |-> TRUE, retries |-> <<>>,
     playerVideo |-> NullId, isVideoLoaded |-> FALSE, instances |-> 0,
     selected |-> {}]

\* the constructor's media fields: no interval yet, the source 'youtube'
InitMedia ==
    /\ currentSource = "youtube"
    /\ updateInterval = 0
    /\ timers = {}
    /\ handles = 0
    /\ metadataPending = FALSE
    /\ capturedTimestamp = Absent
    /\ timestampField = <<>>
    /\ videoElement = FALSE
    /\ sought = Absent
    /\ stream = FALSE
    /\ isRecording = FALSE
    /\ isPaused = FALSE
    /\ isRecordingTime = FALSE
    /\ recorderLive = FALSE
    /\ stopping = FALSE

\* ------------------------------------------------------------- persistence
\* a save that, when setItem throws, puts the fields back to the slot's
saveDataOrRevert(s) ==
    IF ~s.storageFull
    THEN [s EXCEPT !.slot = [people |-> s.people, notes |-> s.notes,
                             videoId |-> s.videoId, videoUrl |-> s.videoUrl]]
    ELSE IF s.slot = [empty |-> TRUE]
         THEN [s EXCEPT !.people = <<>>, !.notes = <<>>]
         ELSE [s EXCEPT !.people = s.slot.people, !.notes = s.slot.notes]

\* saveData(): the slot gets a JSON snapshot of the four fields; when
\* setItem throws, the catch logs and the slot stays as it is
saveData(s) ==
    IF s.storageFull THEN s
    ELSE [s EXCEPT !.slot = [people |-> s.people, notes |-> s.notes,
                             videoId |-> s.videoId, videoUrl |-> s.videoUrl]]

\* a createPlayer that gives up when the IFrame API is not there
createPlayerOnce(s, v) ==
    IF ~s.apiReady THEN s
    ELSE [s EXCEPT !.player = "created", !.playerVideo = v,
                   !.instances = @ + 1]

\* createPlayer(videoId): without the IFrame API the call is put off by a
\* timeout; with it a new YT.Player is made, whose onReady is still to come
createPlayer(s, v) ==
    IF ~s.apiReady THEN [s EXCEPT !.retries = Append(@, v)]
    ELSE [s EXCEPT !.player = "created", !.playerVideo = v,
                   !.instances = @ + 1]

\* loadVideoFromId(videoId): an existing player gets loadVideoById, else
\* one is created
loadVideoFromId(s, v) ==
    LET named == [s EXCEPT !.videoId = v, !.videoUrl = Url(v)]
    IN  saveData(IF s.player # "none" THEN [named EXCEPT !.playerVideo = v]
                 ELSE createPlayer(named, v))

\* ------------------------------------------------------------------ filter
\* Array.prototype.sort((a, b) => a.timestamp - b.timestamp): stable
RECURSIVE InsertByTimestamp(_, _)
InsertByTimestamp(sorted, n) ==
    IF sorted = <<>> THEN <<n>>
    ELSE IF sorted[Len(sorted)].timestamp - n.timestamp > 0
         THEN Append(InsertByTimestamp(SubSeq(sorted, 1, Len(sorted) - 1), n),
                     sorted[Len(sorted)])
         ELSE Append(sorted, n)

RECURSIVE SortByTimestamp(_)
SortByTimestamp(ns) ==
    IF ns = <<>> THEN <<>>
    ELSE InsertByTimestamp(SortByTimestamp(SubSeq(ns, 1, Len(ns) - 1)),
                           ns[Len(ns)])

\* a predicate that takes every mode for 'or'
QualifiesSome(note, sel, mode) ==
    \E person \in sel : person \in Range(note.people)

\* the predicate of this.notes.filter(...) in getFilteredNotes
Qualifies(note, sel, mode) ==
    IF mode = "and"
    THEN \A person \in sel : person \in Range(note.people)
    ELSE \E person \in sel : person \in Range(note.people)

RECURSIVE FilterNotes(_, _, _)
FilterNotes(ns, sel, mode) ==
    IF ns = <<>> THEN <<>>
    ELSE LET rest == FilterNotes(Tail(ns), sel, mode)
         IN  IF Qualifies(Head(ns), sel, mode) THEN <<Head(ns)>> \o rest
             ELSE rest

\* a filter that does not sort what it selected
getFilteredNotesUnsorted(ns, sel, mode) ==
    IF sel = {} THEN SortByTimestamp(ns)
    ELSE FilterNotes(ns, sel, mode)

\* getFilteredNotes(): what it returns
getFilteredNotes(ns, sel, mode) ==
    IF sel = {} THEN SortByTimestamp(ns)
    ELSE SortByTimestamp(FilterNotes(ns, sel, mode))

\* getFilteredNotes(): this.notes after the call; with nothing selected
\* this.notes.sort(...) sorts the Store's own array
notesAfterFilter(ns, sel) ==
    IF sel = {} THEN SortByTimestamp(ns) ELSE ns

\* renderNotes()
renderNotes(s) ==
    [s EXCEPT !.notes = notesAfterFilter(s.notes, s.selected)]

\* ------------------------------------- the filter of the generated document
\* an embedded predicate that takes every mode for 'and'
embeddedQualifiesEvery(note, sel, mode) ==
    \A person \in sel : person \in Range(note.people)

\* the predicate of this.notes.filter(...) in the generated document's
\* getFilteredNotes
embeddedQualifies(note, sel, mode) ==
    IF mode = "and"
    THEN \A person \in sel : person \in Range(note.people)
    ELSE \E person \in sel : person \in Range(note.people)

RECURSIVE embeddedFilterNotes(_, _, _)
embeddedFilterNotes(ns, sel, mode) ==
    IF ns = <<>> THEN <<>>
    ELSE LET rest == embeddedFilterNotes(Tail(ns), sel, mode)
         IN  IF embeddedQualifies(Head(ns), sel, mode) THEN <<Head(ns)>> \o rest
             ELSE rest

\* the generated document's getFilteredNotes(): what it returns
embeddedGetFilteredNotes(ns, sel, mode) ==
    IF sel = {} THEN SortByTimestamp(ns)
    ELSE SortByTimestamp(embeddedFilterNotes(ns, sel, mode))

\* the generated document's getFilteredNotes(): this.notes after the call
embeddedNotesAfterFilter(ns, sel) ==
    IF sel = {} THEN SortByTimestamp(ns) ELSE ns

\* ------------------------------------------------------- the people filter
\* updatePeopleFilter(): the options are rebuilt from this.people and an
\* option stays selected only if its name is still there
updatePeopleFilter(s) ==
    [s EXCEPT !.selected = s.selected \cap Range(s.people)]

\* ------------------------------------------------------------------ people
\* a name with its capital letters made small
Fold(name) == [i \in 1..Len(name) |-> IF name[i] = "X" THEN "x" ELSE name[i]]

\* an addPerson that takes names differing in case only for the same
addPersonFolding(s, name) ==
    IF name = <<>> \/ \E i \in 1..Len(s.people) : Fold(s.people[i]) = Fold(name)
    THEN s
    ELSE updatePeopleFilter(saveData([s EXCEPT !.people = Append(@, name)]))

\* addPerson(name)
addPerson(s, name) ==
    IF name = <<>> \/ name \in Range(s.people) THEN s
    ELSE updatePeopleFilter(saveData([s EXCEPT !.people = Append(@, name)]))

\* a removal that takes out the first occurrence only
RemoveFirstName(seq, name) ==
    IF \E i \in 1..Len(seq) : seq[i] = name
    THEN LET i == CHOOSE k \in 1..Len(seq) :
                      seq[k] = name /\ \A j \in 1..(k - 1) : seq[j] # name
         IN  SubSeq(seq, 1, i - 1) \o SubSeq(seq, i + 1, Len(seq))
    ELSE seq

\* this.people.filter(p => p !== name)
RemoveName(seq, name) ==
    LET Keep(p) == p # name IN SelectSeq(seq, Keep)

\* removePerson(name)
removePerson(s, name) ==
    updatePeopleFilter(saveData([s EXCEPT !.people = RemoveName(@, name)]))

\* note.people.forEach(person => { if (!this.people.includes(person)) this.addPerson(person) })
RECURSIVE registerAll(_, _)
registerAll(s, names) ==
    IF names = <<>> THEN s
    ELSE registerAll(IF Head(names) \in Range(s.people) THEN s
                     ELSE addPerson(s, Head(names)),
                     Tail(names))

\* ------------------------------------------------------------------- notes
\* timestamp || this.currentTime
OrCurrentTime(timestamp, ct) ==
    IF timestamp = Absent \/ timestamp = 0 THEN ct ELSE timestamp

\* addNote(text, people, timestamp) at clock reading t
addNote(s, text, ids, timestamp, t) ==
    IF Trim(text) = <<>> THEN s
    ELSE LET note == [id |-> t,
                      text |-> Trim(text),
                      people |-> SelectSeq(ids, NonBlank),
                      timestamp |-> OrCurrentTime(timestamp, s.currentTime),
                      createdAt |-> t,
                      updatedAt |-> Absent]
             pushed == [s EXCEPT !.notes = Append(@, note)]
         IN  registerAll(renderNotes(saveData(pushed)), note.people)

\* this.notes.find(n => n.id === id), as an index; 0 when there is none
FindNote(ns, id) ==
    IF \E i \in 1..Len(ns) : ns[i].id = id
    THEN CHOOSE i \in 1..Len(ns) :
            ns[i].id = id /\ \A j \in 1..(i - 1) : ns[j].id # id
    ELSE 0

\* an update that stamps every Note of the Store as modified
updateNoteStampingAll(s, id, text, ids, timestamp, t) ==
    LET i == FindNote(s.notes, id)
    IN  IF i = 0 THEN s
        ELSE LET newPeople == SelectSeq(ids, NonBlank)
                 edited == [k \in 1..Len(s.notes) |->
                               IF k = i
                               THEN [s.notes[k] EXCEPT !.text = Trim(text),
                                                       !.people = newPeople,
                                                       !.timestamp = timestamp,
                                                       !.updatedAt = t]
                               ELSE [s.notes[k] EXCEPT !.updatedAt = t]]
             IN  registerAll(renderNotes(saveData([s EXCEPT !.notes = edited])),
                             newPeople)

\* updateNote(id, text, people, timestamp) at clock reading t
updateNote(s, id, text, ids, timestamp, t) ==
    LET i == FindNote(s.notes, id)
    IN  IF i = 0 THEN s
        ELSE LET newPeople == SelectSeq(ids, NonBlank)
                 edited == [s EXCEPT !.notes[i].text = Trim(text),
                                     !.notes[i].people = newPeople,
                                     !.notes[i].timestamp = timestamp,
                                     !.notes[i].updatedAt = t]
             IN  registerAll(renderNotes(saveData(edited)), newPeople)

\* deleteNote(id)
deleteNote(s, id) ==
    LET Keep(n) == n.id # id
    IN  renderNotes(saveData([s EXCEPT !.notes = SelectSeq(@, Keep)]))

\* --------------------------------------------------------------- documents
\* A document is what JSON.parse makes of a file: kind "garbage" does not
\* parse, "null" parses to null, "flat" is an object with the fields at the
\* top, "named" an object with metadata and data (the fields under data).
\* hasLists: the keys people and notes are present.
Doc(kind, hasLists, youtubeId, url, ps, ns) ==
    [kind |-> kind, hasLists |-> hasLists, youtubeId |-> youtubeId,
     videoUrl |-> url, people |-> ps, notes |-> ns]

\* exportData(): the object that is serialised
exportData(s) == Doc("flat", TRUE, s.videoId, s.videoUrl, s.people, s.notes)

\* saveProjectAs(): the object that is serialised
saveProjectAs(s) == Doc("named", TRUE, s.videoId, s.videoUrl, s.people, s.notes)

\* the object importData reads its fields from: the document itself
importBody(doc) ==
    IF doc.kind = "flat" THEN doc
    ELSE Doc("flat", FALSE, NullId, NoUrl, <<>>, <<>>)

\* data.people || [] and data.notes || []
PeopleOrEmpty(body) == IF body.hasLists THEN body.people ELSE <<>>

NotesOrEmpty(body) == IF body.hasLists THEN body.notes ELSE <<>>

\* renderNotes(): note.people.map(...) throws on a note that has no people
RenderThrows(ns) == \E i \in 1..Len(ns) : "people" \notin DOMAIN ns[i]

\* the try block of reader.onload throws after the fields were assigned
ThrowsLate(body) == RenderThrows(NotesOrEmpty(body))

\* the body of the try block of reader.onload, after JSON.parse; when
\* renderNotes() throws, updatePeopleFilter() is not reached
replaceFrom(s, body) ==
    LET loaded == IF body.youtubeId # NullId
                  THEN loadVideoFromId(s, body.youtubeId)
                  ELSE s
        replaced == [loaded EXCEPT !.people = PeopleOrEmpty(body),
                                   !.notes = NotesOrEmpty(body)]
        rendered == renderNotes(saveData(replaced))
    IN  IF ThrowsLate(body) THEN rendered ELSE updatePeopleFilter(rendered)

\* JSON.parse throws, or a property of null is read
Throws(doc) == doc.kind \in {"garbage", "null"}

\* importData(file): reader.onload
importOnload(s, doc) ==
    IF Throws(doc) THEN s ELSE replaceFrom(s, importBody(doc))

\* projectData.metadata && projectData.data
IsNamed(doc) == doc.kind = "named"

\* loadProject(file): reader.onload, the named-project branch
loadOnload(s, doc) ==
    IF Throws(doc) \/ ~IsNamed(doc) THEN s ELSE replaceFrom(s, doc)

\* resetProject(), confirmed
resetProject(s) ==
    updatePeopleFilter(renderNotes(saveData(
        [s EXCEPT !.videoId = NullId, !.videoUrl = NoUrl, !.people = <<>>,
                  !.notes = <<>>, !.currentTime = 0, !.isVideoLoaded = FALSE,
                  !.player = "none", !.playerVideo = NullId,
                  !.instances = IF s.player # "none" THEN @ - 1 ELSE @])))

\* constructor() and init(): loadData() from the slot, then the first render
loadData(s) ==
    IF s.slot = NoSlot
    THEN [Fresh EXCEPT !.slot = s.slot, !.storageFull = s.storageFull,
                       !.apiReady = s.apiReady]
    ELSE LET got == [Fresh EXCEPT !.slot = s.slot,
                                  !.storageFull = s.storageFull,
                                  !.apiReady = s.apiReady,
                                  !.people = s.slot.people,
                                  !.notes = s.slot.notes,
                                  !.videoId = s.slot.videoId,
                                  !.videoUrl = s.slot.videoUrl]
         IN  renderNotes(IF got.videoId # NullId
                         THEN loadVideoFromId(got, got.videoId)
                         ELSE got)

\* ------------------------------------------------------------------ inputs
x == <<"x">>

y == <<"y">>

\* the name x with a capital letter
CapitalX == <<"X">>

blank == <<" ">>

NameInputs == {<<>>, x}

TextInputs == {<<" ">>, <<" ", "a">>}

IdentityInputs == {<<>>, <<blank, y, x>>}

Times == 0..MaxTime

TimestampInputs == {Absent} \cup Times

VideoIds == {"v1"}

OddNote ==
    [id |-> 0, text |-> <<>>, people |-> <<y>>, timestamp |-> -5,
     createdAt |-> 0, updatedAt |-> Absent]

GarbageDoc == Doc("garbage", FALSE, NullId, NoUrl, <<>>, <<>>)

EmptyObjectDoc == Doc("flat", FALSE, NullId, NoUrl, <<>>, <<>>)

OddProjectDoc == Doc("named", TRUE, NullId, NoUrl, <<x, x>>, <<OddNote>>)

\* a Note as a hand-written document may give it: without a people list
BareNote ==
    [id |-> 0, text |-> <<"a">>, timestamp |-> 0, createdAt |-> 0,
     updatedAt |-> Absent]

BareNotesProjectDoc == Doc("named", TRUE, "v2", Url("v2"), <<y>>, <<BareNote>>)

BareNotesExportDoc == Doc("flat", TRUE, NullId, NoUrl, <<y>>, <<BareNote>>)

File(ext, doc) == [ext |-> ext, doc |-> doc]

\* the files of a session that only loads
LoadFiles ==
    {File("json", GarbageDoc), File("ynp", OddProjectDoc),
     File("ynp", BareNotesProjectDoc), File("json", BareNotesExportDoc),
     File("ynp", BareNotesExportDoc)}

StaticFiles ==
    {File("json", GarbageDoc), File("ynp", EmptyObjectDoc),
     File("ynp", OddProjectDoc)}

\* the files the user can pick: the static ones, and the file just downloaded
Files ==
    StaticFiles
    \cup (IF op = "exportData" THEN {File("json", exportData(Cur))} ELSE {})
    \cup (IF op = "saveProjectAs" THEN {File("ynp", saveProjectAs(Cur))} ELSE {})

\* ----------------------------------------------------------------- actions
InitApp ==
    /\ people = <<>>
    /\ notes = <<>>
    /\ videoId = NullId
    /\ videoUrl = NoUrl
    /\ currentTime = 0
    /\ slot = NoSlot
    /\ storageFull = FALSE
    /\ player = "none"
    /\ apiReady = TRUE
    /\ retries = <<>>
    /\ playerVideo = NullId
    /\ isVideoLoaded = FALSE
    /\ instances = 0
    /\ selected = {}
    /\ filterMode = "or"
    /\ now = 0
    /\ reads = {}
    /\ msg = "none"
    /\ op = "init"
    /\ answer = "none"
    /\ filtered = NotFiltered
    /\ embeddedFiltered = NotFiltered
    /\ html = NoHtml
    /\ embedded = NotOpened
    /\ InitMedia

Init ==
    /\ InitApp
    /\ input = <<>>
    /\ parsed = NotParsed

\* one handler ran, with the answer a to its confirm(): the fields it
\* leaves, and the bookkeeping
Asked(name, s, m, a) ==
    /\ Becomes(s)
    /\ op' = name
    /\ msg' = m
    /\ answer' = a
    /\ UNCHANGED <<filterMode, now, reads, parseVars, mediaVars, filterVars, docVars>>

\* one handler ran that asks nothing
Ran(name, s, m) == Asked(name, s, m, "none")

AddPerson ==
    \E name \in NameInputs : Ran("addPerson", addPerson(Cur, name), "none")

RemovePerson ==
    \E name \in Range(people) : Ran("removePerson", removePerson(Cur, name), "none")

\* 'submit' on #add-note-form, with the arguments drawn from the given sets
AddNoteFrom(texts, idLists, stamps) ==
    /\ Len(notes) < MaxNotes
    /\ \E text \in texts, ids \in idLists, ts \in stamps :
          Ran("addNote", addNote(Cur, text, ids, ts, now), "none")

AddNote == AddNoteFrom(TextInputs, IdentityInputs, TimestampInputs)

\* the one note a project session adds, at a given time
AddPlainNote == AddNoteFrom({<<"a">>}, {<<x>>}, Times)

UpdateNote ==
    \E i \in 1..Len(notes), text \in TextInputs, ids \in IdentityInputs,
       ts \in Times :
          Ran("updateNote", updateNote(Cur, notes[i].id, text, ids, ts, now), "none")

DeleteNote ==
    \E i \in 1..Len(notes) : Ran("deleteNote", deleteNote(Cur, notes[i].id), "none")

\* 'change' on #people-filter
SelectPeople ==
    \E sel \in SUBSET Range(people) :
        Ran("selectPeople", renderNotes([Cur EXCEPT !.selected = sel]), "none")

\* 'change' on #filter-mode
SetFilterMode ==
    \E m \in {"or", "and"} :
        /\ Becomes(renderNotes(Cur))
        /\ filterMode' = m
        /\ op' = "setFilterMode"
        /\ answer' = "none"
        /\ msg' = "none"
        /\ UNCHANGED <<now, reads, parseVars, mediaVars, filterVars, docVars>>

\* 'click' on #load-video with a valid URL
LoadVideo ==
    \E v \in VideoIds : Ran("loadVideo", loadVideoFromId(Cur, v), "success")

\* the update interval samples the position of the loaded video
Sample ==
    /\ videoId # NullId
    /\ \E t \in Times : Ran("sample", [Cur EXCEPT !.currentTime = t], "none")

\* time passes
Tick ==
    /\ now < MaxClock
    /\ now' = now + 1
    /\ op' = "tick"
    /\ answer' = "none"
    /\ msg' = "none"
    /\ UNCHANGED <<people, notes, videoId, videoUrl, currentTime, slot, storageFull, player, playerVars,
                   selected, filterMode, reads, parseVars, mediaVars, filterVars, docVars>>

ExportData == Ran("exportData", Cur, "none")

SaveProjectAs == Ran("saveProjectAs", Cur, "success")

\* 'change' on #import-file with one of the given files: importData(file)
\* starts a read
StartImportAmong(files, most) ==
    /\ Cardinality(reads) < most
    /\ \E file \in files :
          /\ reads' = reads \cup {[via |-> "importData", file |-> file]}
          /\ op' = "importData"
          /\ answer' = "none"
          /\ msg' = "none"
          /\ UNCHANGED <<people, notes, videoId, videoUrl, currentTime, slot, storageFull, player, playerVars,
                         selected, filterMode, now, parseVars, mediaVars, filterVars, docVars>>

StartImportOf(files) == StartImportAmong(files, MaxReads)

StartImport == StartImportOf(Files)

\* 'change' on #load-project-file with one of the given files: the extension
\* is checked, then loadProject(file) starts a read
StartLoadProjectAmong(files, most) ==
    /\ Cardinality(reads) < most
    /\ \E file \in files :
          /\ IF file.ext = "ynp"
             THEN /\ reads' = reads \cup {[via |-> "loadProject", file |-> file]}
                  /\ msg' = "none"
             ELSE /\ reads' = reads
                  /\ msg' = "error"
          /\ op' = "loadProject"
          /\ answer' = "none"
          /\ UNCHANGED <<people, notes, videoId, videoUrl, currentTime, slot, storageFull, player, playerVars,
                         selected, filterMode, now, parseVars, mediaVars, filterVars, docVars>>

StartLoadProjectOf(files) == StartLoadProjectAmong(files, MaxReads)

StartLoadProject == StartLoadProjectOf(Files)

\* reader.onload of importData
ImportDone(r) ==
    /\ r \in reads
    /\ r.via = "importData"
    /\ Becomes(importOnload(Cur, r.file.doc))
    /\ msg' = IF Throws(r.file.doc) \/ ThrowsLate(importBody(r.file.doc))
              THEN "error" ELSE "success"
    /\ reads' = reads \ {r}
    /\ op' = "importOnload"
    /\ answer' = "none"
    /\ UNCHANGED <<filterMode, now, parseVars, mediaVars, filterVars, docVars>>

\* reader.onload of loadProject; a document that is no named project is
\* handed to importData, which reads the file again
LoadDone(r) ==
    /\ r \in reads
    /\ r.via = "loadProject"
    /\ Becomes(loadOnload(Cur, r.file.doc))
    /\ msg' = IF Throws(r.file.doc) THEN "error"
              ELSE IF ~IsNamed(r.file.doc) THEN "none"
              ELSE IF ThrowsLate(r.file.doc) THEN "error" ELSE "success"
    /\ reads' = IF ~Throws(r.file.doc) /\ ~IsNamed(r.file.doc)
                THEN (reads \ {r}) \cup {[via |-> "importData", file |-> r.file]}
                ELSE reads \ {r}
    /\ op' = "loadOnload"
    /\ answer' = "none"
    /\ UNCHANGED <<filterMode, now, parseVars, mediaVars, filterVars, docVars>>

ReadDone == \E r \in reads : ImportDone(r) \/ LoadDone(r)

\* 'click' on #reset-project, and the answer to confirm()
ResetProject ==
    \E confirmed \in BOOLEAN :
        IF confirmed
        THEN Asked("resetProject", resetProject(Cur), "success", "yes")
        ELSE Asked("resetProject", Cur, "none", "no")

\* the page is loaded again: constructor() and init()
Restart ==
    /\ Becomes(loadData(Cur))
    /\ filterMode' = "or"
    /\ reads' = {}
    /\ msg' = "none"
    /\ op' = "init"
    /\ answer' = "none"
    /\ currentSource' = "youtube"
    /\ updateInterval' = 0
    /\ timers' = {}
    /\ handles' = 0
    /\ metadataPending' = FALSE
    /\ capturedTimestamp' = Absent
    /\ timestampField' = <<>>
    /\ videoElement' = FALSE
    /\ sought' = Absent
    /\ stream' = FALSE
    /\ isRecording' = FALSE
    /\ isPaused' = FALSE
    /\ isRecordingTime' = FALSE
    /\ recorderLive' = FALSE
    /\ stopping' = FALSE
    /\ UNCHANGED <<now, parseVars, filterVars, docVars>>

\* the editing session: everything but the files
Next ==
    \/ AddPerson
    \/ RemovePerson
    \/ AddNote
    \/ UpdateNote
    \/ DeleteNote
    \/ SelectPeople
    \/ LoadVideo
    \/ Sample
    \/ Tick
    \/ ResetProject
    \/ Restart

Spec == Init /\ [][Next]_vars

\* the project session: export, save-as, import, load, reset and restart,
\* on a project filled by a few edits
NextProject ==
    \/ AddPlainNote
    \/ RemovePerson
    \/ SelectPeople
    \/ SetFilterMode
    \/ LoadVideo
    \/ Tick
    \/ ExportData
    \/ SaveProjectAs
    \/ StartImport
    \/ StartLoadProject
    \/ ReadDone
    \/ ResetProject
    \/ Restart

SpecProject == Init /\ [][NextProject]_vars

\* ------------------------------------------------------------ the media
\* a start of the interval that leaves the one before running
startUpdateIntervalKeeping ==
    /\ handles < MaxHandles
    /\ timers' = timers \cup {handles + 1}
    /\ updateInterval' = handles + 1
    /\ handles' = handles + 1

\* startUpdateInterval(): clearInterval on the handle held, if any, then
\* setInterval, which gives out a handle not used before
startUpdateInterval ==
    /\ handles < MaxHandles
    /\ timers' = (IF updateInterval # 0 THEN timers \ {updateInterval}
                  ELSE timers) \cup {handles + 1}
    /\ updateInterval' = handles + 1
    /\ handles' = handles + 1

\* a media callback or handler ran: the data and the rest stay
MediaRan(name, m) ==
    /\ op' = name
    /\ msg' = m
    /\ answer' = "none"
    /\ UNCHANGED <<people, notes, videoId, videoUrl, currentTime, slot,
                   storageFull, apiReady, retries, playerVideo, instances,
                   selected,
                   filterMode, now, reads, parseVars, filterVars, docVars,
                   formVars>>

\* onPlayerReady(event)
PlayerReady ==
    /\ player = "created"
    /\ player' = "ready"
    /\ isVideoLoaded' = TRUE
    /\ startUpdateInterval
    /\ MediaRan("onPlayerReady", "none")
    /\ UNCHANGED <<currentSource, metadataPending, seekVars, webcamVars>>

\* 'change' on a video-source radio: switchVideoSource(sourceType), with
\* switchToLocal() and switchToWebcam() creating the video element
SwitchVideoSource ==
    \E sourceType \in {"youtube", "local", "webcam"} :
        /\ currentSource' = sourceType
        /\ isRecordingTime' = (sourceType = "webcam" /\ isRecordingTime)
        /\ videoElement' = (videoElement \/ sourceType # "youtube")
        /\ MediaRan("switchVideoSource", "none")
        /\ UNCHANGED <<player, isVideoLoaded, updateInterval, timers, handles,
                       metadataPending, sought, stream, isRecording, isPaused,
                       recorderLive, stopping>>

\* 'click' on #load-local-video with a file chosen: loadLocalVideo(file)
LoadLocalVideo ==
    /\ metadataPending' = TRUE
    /\ videoElement' = TRUE
    /\ MediaRan("loadLocalVideo", "none")
    /\ UNCHANGED <<player, isVideoLoaded, currentSource, updateInterval, timers,
                   handles, sought, webcamVars>>

\* videoElement.onloadedmetadata
LocalMetadataLoaded ==
    /\ metadataPending
    /\ metadataPending' = FALSE
    /\ isVideoLoaded' = TRUE
    /\ startUpdateInterval
    /\ MediaRan("onloadedmetadata", "none")
    /\ UNCHANGED <<player, currentSource, seekVars, webcamVars>>

\* 'click' on #start-webcam: startWebcam(), after the camera started or
\* failed to
\* webcamController.startWebcam() stops the stream there is before
\* it asks for a new one, and with the stream's tracks the recorder stops
StartWebcam ==
    \/ /\ isVideoLoaded' = TRUE
       /\ stream' = TRUE
       /\ videoElement' = TRUE
       /\ recorderLive' = FALSE
       /\ startUpdateInterval
       /\ MediaRan("startWebcam", "success")
       /\ UNCHANGED <<player, currentSource, metadataPending, sought,
                      isRecording, isPaused, isRecordingTime, stopping>>
    \/ /\ stream' = FALSE
       /\ recorderLive' = FALSE
       /\ MediaRan("startWebcam", "error")
       /\ UNCHANGED <<player, isVideoLoaded, currentSource, updateInterval,
                      timers, handles, metadataPending, seekVars, isRecording,
                      isPaused, isRecordingTime, stopping>>

\* a playback control ran: it leaves everything but the time sought
PlaybackRan(name, time) ==
    /\ sought' = time
    /\ MediaRan(name, "none")
    /\ UNCHANGED <<player, isVideoLoaded, currentSource, updateInterval, timers,
                   handles, metadataPending, videoElement, webcamVars>>

\* togglePlayPause(): play or pause on the player or on the video element
TogglePlayPause == PlaybackRan("togglePlayPause", sought)

\* the seconds seekToTime is called with: times of Notes, and one below 0
SeekTimes == Times \cup {-1}

\* seekToTime(seconds) leaves this time sought; a player that onReady has
\* not been called for has no seekTo yet, and the call's exception is caught
seekToTime(seconds) ==
    IF currentSource = "youtube"
    THEN IF player = "none" \/ ~isVideoLoaded \/ seconds < 0 \/ player # "ready"
         THEN sought
         ELSE seconds
    ELSE IF currentSource = "local"
         THEN IF ~videoElement \/ seconds < 0 THEN sought ELSE seconds
         ELSE sought

SeekToTime == \E seconds \in SeekTimes : PlaybackRan("seekToTime", seekToTime(seconds))

\* jumpTime(seconds): the new time lies between 0 and this.duration, which
\* is 0 whenever isVideoLoaded is false; a player that onReady has not been
\* called for has no getCurrentTime yet
JumpTime ==
    \E newTime \in (IF isVideoLoaded THEN Times ELSE {0}) :
        PlaybackRan("jumpTime",
                    IF currentSource = "youtube" /\ player # "ready" THEN sought
                    ELSE IF currentSource = "local" /\ ~videoElement THEN sought
                    ELSE seekToTime(newTime))

NextPlayer ==
    \/ LoadVideo
    \/ PlayerReady
    \/ SwitchVideoSource
    \/ LoadLocalVideo
    \/ LocalMetadataLoaded
    \/ StartWebcam
    \/ TogglePlayPause
    \/ SeekToTime
    \/ JumpTime
    \/ ResetProject
    \/ Restart

SpecPlayer == Init /\ [][NextPlayer]_vars

\* ------------------------------------------------- the webcam recording
\* a recording handler ran: the position becomes time, the data, the
\* player, the source and the stream stay
RecordingRan(name, m, time) ==
    /\ op' = name
    /\ msg' = m
    /\ answer' = "none"
    /\ currentTime' = time
    /\ UNCHANGED <<people, notes, videoId, videoUrl, slot, storageFull, player,
                   playerVars, selected, filterMode, now, reads, parseVars,
                   filterVars, docVars, formVars, currentSource,
                   updateInterval, timers, handles, metadataPending, seekVars,
                   stream>>

\* startWebcamRecording() sets the recording clock going on the webcam
\* source, whatever became of webcamController.startRecording()
startClock == isRecordingTime \/ currentSource = "webcam"

\* 'click' on #start-recording: webcamController.startRecording() rejects
\* without a stream, returns when a recording is on and starts a
\* MediaRecorder otherwise; startWebcamRecording() does not wait for it
StartWebcamRecording ==
    /\ IF stream /\ ~isRecording
       THEN /\ isRecording' = TRUE
            /\ isPaused' = FALSE
            /\ recorderLive' = TRUE
       ELSE UNCHANGED <<isRecording, isPaused, recorderLive>>
    /\ isRecordingTime' = startClock
    /\ RecordingRan("startWebcamRecording", "success", currentTime)
    /\ UNCHANGED stopping

\* 'click' on #pause-recording: resumeWebcamRecording() when the
\* controller is paused, pauseWebcamRecording() otherwise; pause() and
\* resume() of a MediaRecorder that is inactive throw
PauseOrResume ==
    /\ IF isRecording /\ (~recorderLive \/ stopping)
       THEN /\ RecordingRan("pauseRecording", "none", currentTime)
            /\ UNCHANGED isPaused
       ELSE /\ isPaused' = IF isRecording THEN ~isPaused ELSE isPaused
            /\ RecordingRan("pauseRecording", "success", currentTime)
    /\ UNCHANGED <<isRecording, isRecordingTime, recorderLive, stopping>>

\* 'click' on #end-recording: endWebcamRecording() up to its await; with
\* no recording on, stopRecording() resolves with null at once
EndWebcamRecording ==
    IF isRecording
    THEN /\ stopping' = (stopping \/ recorderLive)
         /\ RecordingRan("endWebcamRecording", "none", currentTime)
         /\ UNCHANGED <<isRecording, isPaused, isRecordingTime, recorderLive>>
    ELSE /\ isRecordingTime' = (isRecordingTime /\ currentSource # "webcam")
         /\ RecordingRan("endWebcamRecording", "error",
                         IF currentSource = "webcam" THEN 0 ELSE currentTime)
         /\ UNCHANGED <<isRecording, isPaused, recorderLive, stopping>>

\* mediaRecorder.onstop as stopRecording() set it, and the rest of
\* endWebcamRecording()
RecorderStopped ==
    /\ stopping
    /\ stopping' = FALSE
    /\ recorderLive' = FALSE
    /\ isRecording' = FALSE
    /\ isPaused' = FALSE
    /\ isRecordingTime' = (isRecordingTime /\ currentSource # "webcam")
    /\ \E m \in {"success", "error"} :
          RecordingRan("onstop", m,
                       IF currentSource = "webcam" THEN 0 ELSE currentTime)

NextWebcam ==
    \/ SwitchVideoSource
    \/ StartWebcam
    \/ StartWebcamRecording
    \/ PauseOrResume
    \/ EndWebcamRecording
    \/ RecorderStopped
    \/ LoadVideo
    \/ Sample

SpecWebcam == Init /\ [][NextWebcam]_vars

\* ------------------------------------------------- the IFrame API's load
\* the videos asked for while the page waits for the API
EarlyVideoIds == {"v1", "v2"}

\* 'click' on #load-video with a valid URL, while few calls of createPlayer
\* wait on their timeout
LoadEitherVideo ==
    /\ Len(retries) < MaxRetries
    /\ \E v \in EarlyVideoIds : Ran("loadVideo", loadVideoFromId(Cur, v), "success")

\* the script of the IFrame API has run: YT.Player is defined
ApiLoads ==
    /\ ~apiReady
    /\ Ran("apiLoaded", [Cur EXCEPT !.apiReady = TRUE], "none")

\* the timeout of the call of createPlayer(videoId) that waits longest
\* runs: createPlayer(videoId) again
RetryCreatePlayer ==
    /\ retries # <<>>
    /\ Ran("createPlayer",
           createPlayer([Cur EXCEPT !.retries = Tail(@)], Head(retries)),
           "none")

\* the page as the constructor leaves it when the script of the IFrame API
\* has not run yet
InitApi ==
    /\ people = <<>>
    /\ notes = <<>>
    /\ videoId = NullId
    /\ videoUrl = NoUrl
    /\ currentTime = 0
    /\ slot = NoSlot
    /\ storageFull = FALSE
    /\ player = "none"
    /\ apiReady = FALSE
    /\ retries = <<>>
    /\ playerVideo = NullId
    /\ isVideoLoaded = FALSE
    /\ instances = 0
    /\ selected = {}
    /\ filterMode = "or"
    /\ now = 0
    /\ reads = {}
    /\ msg = "none"
    /\ op = "init"
    /\ answer = "none"
    /\ filtered = NotFiltered
    /\ embeddedFiltered = NotFiltered
    /\ html = NoHtml
    /\ embedded = NotOpened
    /\ InitMedia
    /\ input = <<>>
    /\ parsed = NotParsed

NextApi ==
    \/ LoadEitherVideo
    \/ ApiLoads
    \/ RetryCreatePlayer
    \/ PlayerReady
    \/ ResetProject

SpecApi == InitApi /\ [][NextApi]_vars

\* the videos are asked for before the API is ready, and none after
LoadEarly == ~apiReady /\ LoadEitherVideo

NextEarly ==
    \/ LoadEarly
    \/ ApiLoads
    \/ RetryCreatePlayer
    \/ PlayerReady

SpecEarly == InitApi /\ [][NextEarly]_vars

\* setTimeout runs its callback
SpecApiFair == SpecApi /\ WF_vars(RetryCreatePlayer)

\* ----------------------------------------------------------- the form
\* the seconds of a number the parser returned, as the Store holds them;
\* the strings typed into the form denote whole numbers
Seconds(v) == v.num

\* the strings typed into #note-timestamp and into the timestamp prompt
FormTimestamps == {<<"0">>, <<"1">>, <<"a">>, <<"-", "1">>}

\* the texts of #note-text and of the text prompt
FormTexts == {<<>>, <<" ">>, <<"a">>}

\* a form or prompt handler ran: it leaves the application as app, shows m,
\* and leaves the captured time and the field as given
FormRan(name, app, m, captured, field) ==
    /\ Becomes(app)
    /\ op' = name
    /\ msg' = m
    /\ answer' = "none"
    /\ capturedTimestamp' = captured
    /\ timestampField' = field
    /\ UNCHANGED <<filterMode, now, reads, parseVars, filterVars, docVars,
                   currentSource, updateInterval, timers, handles,
                   metadataPending, seekVars, webcamVars>>

\* 'click' on #capture-time-btn
CaptureTime == FormRan("captureTime", Cur, "none", currentTime, <<>>)

\* 'input' on #note-timestamp: the field has the string typed, or is empty
\* again
TypeTimestamp ==
    \E str \in FormTimestamps \cup {<<>>} :
        /\ str # timestampField
        /\ FormRan("typeTimestamp", Cur, "none", Absent, str)

\* the submit handler's choice: 1) input field, 2) captured timestamp,
\* 3) current time; Null when the field does not parse
timeChosen(s) ==
    IF timestampField # <<>> THEN parseTimestamp(timestampField)
    ELSE IF capturedTimestamp # Absent THEN Num(capturedTimestamp)
    ELSE Num(s.currentTime)

\* a submit that stores the Note whatever the field holds
SubmitNoteUnchecked(text, ids) ==
    /\ Len(notes) < MaxNotes
    /\ IF text = <<>>
       THEN FormRan("submitNote", Cur, "none", capturedTimestamp, timestampField)
       ELSE FormRan("submitNote",
                    addNote(Cur, text, ids,
                            IF timeChosen(Cur) = Null THEN Absent
                            ELSE Seconds(timeChosen(Cur)), now),
                    "none", Absent, <<>>)

\* 'submit' on #add-note-form with the text and the people chosen
SubmitNote(text, ids) ==
    /\ Len(notes) < MaxNotes
    /\ IF text = <<>>
       THEN FormRan("submitNote", Cur, "none", capturedTimestamp, timestampField)
       ELSE IF timestampField # <<>> /\ timeChosen(Cur) = Null
            THEN FormRan("submitNote", Cur, "error", capturedTimestamp,
                         timestampField)
            ELSE FormRan("submitNote",
                         addNote(Cur, text, ids, Seconds(timeChosen(Cur)), now),
                         "none", Absent, <<>>)

\* the options of #note-people-select that can be selected: names of the
\* Registry, in the order of the options
PeopleOptions == {SelectSeq(people, LAMBDA p : p \in chosen) : chosen \in SUBSET Range(people)}

Submit == \E text \in FormTexts, ids \in PeopleOptions : SubmitNote(text, ids)

\* editNote(id) with the answers to its prompts: the text, the people
\* picked by number, the timestamp; cancelled tells which prompt was
\* dismissed, if any
EditNote(id, text, ids, str, cancelled) ==
    IF FindNote(notes, id) = 0 \/ cancelled \in {"text", "people", "timestamp"}
    THEN FormRan("editNote", Cur, "none", capturedTimestamp, timestampField)
    ELSE IF parseTimestamp(str) = Null
         THEN FormRan("editNote", Cur, "error", capturedTimestamp, timestampField)
         ELSE FormRan("editNote",
                      updateNote(Cur, id, text, IF ids = <<>> THEN <<<<>>>> ELSE ids,
                                 Seconds(parseTimestamp(str)), now),
                      "none", capturedTimestamp, timestampField)

Edit ==
    \E i \in 1..Len(notes), text \in FormTexts, ids \in PeopleOptions,
       str \in FormTimestamps \cup {<<>>},
       cancelled \in {"none", "text", "people", "timestamp"} :
        EditNote(notes[i].id, text, ids, str, cancelled)

\* the application with two names, a video and no Note or one Note
FormStarts ==
    LET base == loadVideoFromId(addPerson(addPerson(Fresh, x), y), "v1")
    IN  {base, addNote(base, <<"a">>, <<x>>, 1, 0)}

InitForm ==
    /\ \E s \in FormStarts :
          /\ people = s.people
          /\ notes = s.notes
          /\ videoId = s.videoId
          /\ videoUrl = s.videoUrl
          /\ currentTime = s.currentTime
          /\ slot = s.slot
          /\ storageFull = s.storageFull
          /\ player = s.player
          /\ apiReady = s.apiReady
          /\ retries = s.retries
          /\ playerVideo = s.playerVideo
          /\ isVideoLoaded = s.isVideoLoaded
          /\ instances = s.instances
          /\ selected = s.selected
    /\ filterMode = "or"
    /\ now = 0
    /\ reads = {}
    /\ msg = "none"
    /\ op = "init"
    /\ answer = "none"
    /\ filtered = NotFiltered
    /\ embeddedFiltered = NotFiltered
    /\ html = NoHtml
    /\ embedded = NotOpened
    /\ InitMedia
    /\ input = <<>>
    /\ parsed = NotParsed

\* the form is used up to its first submission or edit
NextForm ==
    /\ op \notin {"submitNote", "editNote"}
    /\ \/ Sample
       \/ CaptureTime
       \/ TypeTimestamp
       \/ Submit
       \/ Edit

SpecForm == InitForm /\ [][NextForm]_vars

\* ------------------------------------------------- the parser on its own
InitParse ==
    /\ InitApp
    /\ input \in Inputs
    /\ parsed = NotParsed

Parse ==
    /\ parsed = NotParsed
    /\ parsed' = parseTimestamp(input)
    /\ UNCHANGED <<input, appVars>>

NextParse == Parse

SpecParse == InitParse /\ [][NextParse]_vars

\* ------------------------------------------------------- drawn Stores
PeopleLists == {<<>>, <<x>>, <<y>>, <<x, y>>}

\* the i-th Note of a Store
StoreNote(i, ps, ts) ==
    [id |-> i, text |-> <<"a">>, people |-> ps, timestamp |-> ts,
     createdAt |-> i, updatedAt |-> Absent]

Stores ==
    UNION {{[i \in 1..n |-> StoreNote(i, f[i][1], f[i][2])] :
               f \in [1..n -> PeopleLists \X Times]} : n \in 0..MaxStore}

\* ------------------------------------------------- the generated document
\* what a template literal makes of null
NullString == "'null'"

\* '${v}' for a video id
Quoted(v) == IF v = NullId THEN NullString ELSE v

\* JSON.stringify of a Note: a key whose value is undefined is left out
JsonNote(n) ==
    IF n.updatedAt = Absent THEN [k \in DOMAIN n \ {"updatedAt"} |-> n[k]]
    ELSE n

JsonNotes(ns) == [i \in 1..Len(ns) |-> JsonNote(ns[i])]

\* the elements of the body of the generated document that a listener or
\* an inline handler may be bound to
BodyControls ==
    {"play-pause", "rewind-5", "forward-5", "seek-bar", "mode-btn",
     "people-filter", "filter-mode"}

\* generateSelfContainedHTML(data): the literals of the embedded
\* constructor, and the controls of the body
generateSelfContainedHTML(data) ==
    [people |-> data.people,
     notes |-> JsonNotes(data.notes),
     videoId |-> Quoted(data.youtubeId),
     videoUrl |-> data.videoUrl,
     controls |-> BodyControls]

\* saveProjectAsHTML(): the document it downloads
saveProjectAsHTML(s) ==
    generateSelfContainedHTML(
        [youtubeId |-> s.videoId, videoUrl |-> s.videoUrl,
         people |-> s.people, notes |-> s.notes])

\* this.player = null
NoPlayer == [created |-> FALSE]

\* the embedded constructor(), before init()
embeddedConstructor(doc) ==
    [people |-> doc.people, notes |-> doc.notes, videoId |-> doc.videoId,
     videoUrl |-> doc.videoUrl, currentMode |-> "view",
     isVideoLoaded |-> FALSE, player |-> NoPlayer, isPlaying |-> FALSE,
     pauseDue |-> FALSE, selected |-> {}, filterMode |-> "or"]

\* a render that keeps the filtered list as the notes
embeddedRenderNotesStoring(e) ==
    [e EXCEPT !.notes = embeddedGetFilteredNotes(e.notes, e.selected, e.filterMode)]

\* the embedded renderNotes()
embeddedRenderNotes(e) ==
    [e EXCEPT !.notes = embeddedNotesAfterFilter(e.notes, e.selected)]

\* the embedded updatePeopleFilter()
embeddedUpdatePeopleFilter(e) ==
    [e EXCEPT !.selected = e.selected \cap Range(e.people)]

\* the embedded loadVideoFromId(videoId): there is no player yet, and
\* createPlayer makes one for the id
embeddedLoadVideoFromId(e, v) ==
    [e EXCEPT !.videoId = v,
              !.player = [created |-> TRUE, videoId |-> v]]

\* the embedded init(); if (this.videoId) is true of every string but ''
embeddedInit(e) ==
    LET shown == embeddedUpdatePeopleFilter(embeddedRenderNotes(e))
    IN  IF shown.videoId # "" THEN embeddedLoadVideoFromId(shown, shown.videoId)
        ELSE shown

\* the elements the embedded setupEventListeners() looks up, and the inline
\* handler of a rendered Note
EmbeddedListeners ==
    {"mode-btn", "play-pause", "rewind-5", "forward-5", "test-seek",
     "seek-bar", "people-filter", "filter-mode", "export-data", "import-data",
     "debug-notes", "import-file", "save-project-as", "load-project",
     "load-project-file", "save-project", "reset-project", "video-source",
     "local-video-file", "load-local-video", "start-webcam",
     "start-recording", "pause-recording", "end-recording"}

\* what the opened document lets its user operate: the listeners whose
\* element the body has, and the timestamp of a rendered Note
EmbeddedOffers(doc) == (doc.controls \cap EmbeddedListeners) \cup {"note-timestamp"}

\* 'click' on #save-project
SaveProjectAsHTML ==
    /\ html' = saveProjectAsHTML(Cur)
    /\ op' = "saveProjectAsHTML"
    /\ msg' = "success"
    /\ answer' = "none"
    /\ UNCHANGED <<people, notes, videoId, videoUrl, currentTime, slot, storageFull, player, playerVars,
                   selected, filterMode, now, reads, embedded, filterVars,
                   parseVars, mediaVars>>

\* a step of the opened document: its application object becomes e, and
\* the application that generated it is not touched
EmbeddedRan(e) ==
    /\ embedded' = e
    /\ UNCHANGED <<people, notes, videoId, videoUrl, currentTime, slot, storageFull, player, playerVars,
                   selected, filterMode, now, reads, msg, op, answer, html,
                   filterVars, parseVars, mediaVars>>

\* the downloaded document is opened: DOMContentLoaded
OpenDocument ==
    /\ html # NoHtml
    /\ EmbeddedRan(embeddedInit(embeddedConstructor(html)))

\* 'click' on a .mode-btn: setMode
EmbeddedSetMode ==
    /\ embedded # NotOpened
    /\ \E mode \in {"view", "edit"} :
          EmbeddedRan([embedded EXCEPT !.currentMode = mode])

\* 'change' on #people-filter
EmbeddedSelectPeople ==
    /\ embedded # NotOpened
    /\ \E sel \in SUBSET Range(embedded.people) :
          EmbeddedRan(embeddedRenderNotes([embedded EXCEPT !.selected = sel]))

\* 'change' on #filter-mode
EmbeddedSetFilterMode ==
    /\ embedded # NotOpened
    /\ \E m \in {"or", "and"} :
          EmbeddedRan(embeddedRenderNotes([embedded EXCEPT !.filterMode = m]))

\* onPlayerReady
EmbeddedPlayerReady ==
    /\ embedded # NotOpened
    /\ embedded.player # NoPlayer
    /\ ~embedded.isVideoLoaded
    /\ EmbeddedRan([embedded EXCEPT !.isVideoLoaded = TRUE])

\* 'click' on #play-pause, enabled by onPlayerReady: togglePlayPause, and
\* the state change the player answers with
EmbeddedTogglePlayPause ==
    /\ embedded # NotOpened
    /\ embedded.player # NoPlayer
    /\ embedded.isVideoLoaded
    /\ EmbeddedRan([embedded EXCEPT !.isPlaying = ~embedded.isPlaying])

\* 'click' on a Note's timestamp, on #seek-bar, #rewind-5 or #forward-5:
\* seekToTime(seconds) hands the time to the player and sets the timer that
\* pauses
EmbeddedSeek ==
    /\ embedded # NotOpened
    /\ embedded.player # NoPlayer
    /\ embedded.isVideoLoaded
    /\ \E t \in Times :
          t >= 0 /\ EmbeddedRan([embedded EXCEPT !.pauseDue = TRUE])

\* the timer seekToTime set: pauseVideo
EmbeddedPauseAfterSeek ==
    /\ embedded # NotOpened
    /\ embedded.pauseDue
    /\ EmbeddedRan([embedded EXCEPT !.isPlaying = FALSE, !.pauseDue = FALSE])

\* the projects a document is generated from
Projects ==
    {saveData([Fresh EXCEPT !.people = <<x, y>>, !.notes = ns, !.videoId = v,
                            !.videoUrl = IF v = NullId THEN NoUrl ELSE Url(v)]) :
        ns \in {s \in Stores : Len(s) <= MaxNotes}, v \in {NullId} \cup VideoIds}

InitEmbedded ==
    /\ \E s \in Projects :
          /\ people = s.people
          /\ notes = s.notes
          /\ videoId = s.videoId
          /\ videoUrl = s.videoUrl
          /\ currentTime = s.currentTime
          /\ slot = s.slot
          /\ storageFull = s.storageFull
          /\ player = s.player
          /\ apiReady = s.apiReady
          /\ retries = s.retries
          /\ playerVideo = s.playerVideo
          /\ isVideoLoaded = s.isVideoLoaded
          /\ instances = s.instances
          /\ selected = s.selected
    /\ filterMode = "or"
    /\ now = 0
    /\ reads = {}
    /\ msg = "none"
    /\ op = "init"
    /\ answer = "none"
    /\ filtered = NotFiltered
    /\ embeddedFiltered = NotFiltered
    /\ html = NoHtml
    /\ embedded = NotOpened
    /\ InitMedia
    /\ input = <<>>
    /\ parsed = NotParsed

NextEmbedded ==
    \/ SaveProjectAsHTML
    \/ OpenDocument
    \/ EmbeddedSetMode
    \/ EmbeddedSelectPeople
    \/ EmbeddedSetFilterMode
    \/ EmbeddedPlayerReady
    \/ EmbeddedTogglePlayPause
    \/ EmbeddedSeek
    \/ EmbeddedPauseAfterSeek

SpecEmbedded == InitEmbedded /\ [][NextEmbedded]_vars

\* ------------------------------------------------ the Registry on its own
\* the Registries drawn; one that holds a name twice comes from a loaded
\* document
Registries == UNION {[1..n -> {x, y}] : n \in 0..MaxPeople}

\* a Store of at most one Note whose names are all in the Registry ps
RegisteredStores(ps) ==
    {s \in Stores :
        /\ Len(s) <= 1
        /\ \A i \in 1..Len(s) : Range(s[i].people) \subseteq Range(ps)}

\* the application with a Registry and such a Store, saved
RegistryStarts ==
    UNION {{saveData([Fresh EXCEPT !.people = ps, !.notes = ns]) :
               ns \in RegisteredStores(ps)} : ps \in Registries}

InitRegistry ==
    /\ \E s \in RegistryStarts :
          /\ people = s.people
          /\ notes = s.notes
          /\ videoId = s.videoId
          /\ videoUrl = s.videoUrl
          /\ currentTime = s.currentTime
          /\ slot = s.slot
          /\ storageFull = s.storageFull
          /\ player = s.player
          /\ apiReady = s.apiReady
          /\ retries = s.retries
          /\ playerVideo = s.playerVideo
          /\ isVideoLoaded = s.isVideoLoaded
          /\ instances = s.instances
          /\ selected = s.selected
    /\ filterMode = "or"
    /\ now = 0
    /\ reads = {}
    /\ msg = "none"
    /\ op = "init"
    /\ answer = "none"
    /\ filtered = NotFiltered
    /\ embeddedFiltered = NotFiltered
    /\ html = NoHtml
    /\ embedded = NotOpened
    /\ InitMedia
    /\ input = <<>>
    /\ parsed = NotParsed

NextRegistry ==
    \/ AddPerson
    \/ RemovePerson
    \/ SelectPeople

SpecRegistry == InitRegistry /\ [][NextRegistry]_vars

\* ------------------------------------- the editing handlers on their own
\* the Stores of two Notes, in the order a render with nothing selected
\* leaves them in
RenderedPairs ==
    {ns \in Stores : Len(ns) = 2 /\ ns[1].timestamp <= ns[2].timestamp}

\* an id that no Note of a drawn Store has
UnusedId == MaxStore + MaxClock + 1

\* the application with a Registry and a Store as above, or with the one
\* name X in the Registry, or with two Notes: saved, with
\* storage that takes writes; saved, with storage that throws on every
\* write from now on; never saved, storage having thrown from the start
SavedStarts ==
    RegistryStarts
    \cup {saveData([Fresh EXCEPT !.people = <<CapitalX>>])}
    \cup {saveData([Fresh EXCEPT !.people = <<x, y>>, !.notes = ns]) :
              ns \in RenderedPairs}

HandlerStarts ==
    SavedStarts
    \cup {[s EXCEPT !.storageFull = TRUE] : s \in SavedStarts}
    \cup {[s EXCEPT !.storageFull = TRUE, !.slot = NoSlot] : s \in SavedStarts}

InitHandlers ==
    /\ \E s \in HandlerStarts :
          /\ people = s.people
          /\ notes = s.notes
          /\ videoId = s.videoId
          /\ videoUrl = s.videoUrl
          /\ currentTime = s.currentTime
          /\ slot = s.slot
          /\ storageFull = s.storageFull
          /\ player = s.player
          /\ apiReady = s.apiReady
          /\ retries = s.retries
          /\ playerVideo = s.playerVideo
          /\ isVideoLoaded = s.isVideoLoaded
          /\ instances = s.instances
          /\ selected = s.selected
    /\ filterMode = "or"
    /\ now = 0
    /\ reads = {}
    /\ msg = "none"
    /\ op = "init"
    /\ answer = "none"
    /\ filtered = NotFiltered
    /\ embeddedFiltered = NotFiltered
    /\ html = NoHtml
    /\ embedded = NotOpened
    /\ InitMedia
    /\ input = <<>>
    /\ parsed = NotParsed

\* updateNote and deleteNote called with an id that no Note has
UpdateAbsentNote ==
    \E text \in TextInputs, ids \in IdentityInputs, ts \in Times :
        Ran("updateNote", updateNote(Cur, UnusedId, text, ids, ts, now), "none")

DeleteAbsentNote == Ran("deleteNote", deleteNote(Cur, UnusedId), "none")

\* one handler runs on the drawn state
NextHandlers ==
    /\ op = "init"
    /\ \/ AddPerson
       \/ RemovePerson
       \/ AddNote
       \/ UpdateNote
       \/ UpdateAbsentNote
       \/ DeleteNote
       \/ DeleteAbsentNote

SpecHandlers == InitHandlers /\ [][NextHandlers]_vars

\* ------------------------------------------------- the loaders on their own
\* the application before the loads: fresh, or after a video was loaded, a
\* Note was added, or both
LoadStarts ==
    LET withVideo == loadVideoFromId(Fresh, "v1")
    IN  {Fresh, withVideo,
         addNote(Fresh, <<"a">>, <<x>>, 1, 0),
         addNote(withVideo, <<"a">>, <<x>>, 1, 0)}

InitLoad ==
    /\ \E s \in LoadStarts :
          /\ people = s.people
          /\ notes = s.notes
          /\ videoId = s.videoId
          /\ videoUrl = s.videoUrl
          /\ currentTime = s.currentTime
          /\ slot = s.slot
          /\ storageFull = s.storageFull
          /\ player = s.player
          /\ apiReady = s.apiReady
          /\ retries = s.retries
          /\ playerVideo = s.playerVideo
          /\ isVideoLoaded = s.isVideoLoaded
          /\ instances = s.instances
          /\ selected = s.selected
    /\ filterMode = "or"
    /\ now = 0
    /\ reads = {}
    /\ msg = "none"
    /\ op = "init"
    /\ answer = "none"
    /\ filtered = NotFiltered
    /\ embeddedFiltered = NotFiltered
    /\ html = NoHtml
    /\ embedded = NotOpened
    /\ InitMedia
    /\ input = <<>>
    /\ parsed = NotParsed

NextLoad ==
    \/ StartImportOf(LoadFiles)
    \/ StartLoadProjectOf(LoadFiles)
    \/ ReadDone

SpecLoad == InitLoad /\ [][NextLoad]_vars

\* a project whose notes are not in the order of their timestamps
UnsortedProjectDoc ==
    Doc("named", TRUE, NullId, NoUrl, <<x>>,
        <<[id |-> 1, text |-> <<"a">>, people |-> <<x>>, timestamp |-> 1,
           createdAt |-> 1, updatedAt |-> Absent],
          [id |-> 0, text |-> <<"a">>, people |-> <<>>, timestamp |-> 0,
           createdAt |-> 0, updatedAt |-> Absent]>>)

\* the files of a session whose loads overlap
OverlapFiles ==
    {File("json", GarbageDoc), File("ynp", OddProjectDoc),
     File("ynp", BareNotesExportDoc), File("ynp", UnsortedProjectDoc)}

\* loads that overlap each other and the edits made while a file is read
NextOverlap ==
    \/ StartImportAmong(OverlapFiles, MaxOverlap)
    \/ StartLoadProjectAmong(OverlapFiles, MaxOverlap)
    \/ ReadDone
    \/ AddPerson
    \/ AddPlainNote

SpecOverlap == InitLoad /\ [][NextOverlap]_vars

\* ------------------------------------------------- the filter on its own
InitFilter ==
    /\ people = <<x, y>>
    /\ notes \in Stores
    /\ videoId = NullId
    /\ videoUrl = NoUrl
    /\ currentTime = 0
    /\ slot = NoSlot
    /\ storageFull = FALSE
    /\ player = "none"
    /\ apiReady = TRUE
    /\ retries = <<>>
    /\ playerVideo = NullId
    /\ isVideoLoaded = FALSE
    /\ instances = 0
    /\ selected \in SUBSET Range(people)
    /\ filterMode \in {"or", "and"}
    /\ now = 0
    /\ reads = {}
    /\ msg = "none"
    /\ op = "init"
    /\ answer = "none"
    /\ filtered = NotFiltered
    /\ embeddedFiltered = NotFiltered
    /\ html = NoHtml
    /\ embedded = NotOpened
    /\ InitMedia
    /\ input = <<>>
    /\ parsed = NotParsed

\* getFilteredNotes() of the application and of the generated document, on
\* the same Store, selection and mode
Filter ==
    /\ op = "init"
    /\ filtered' = getFilteredNotes(notes, selected, filterMode)
    /\ embeddedFiltered' = embeddedGetFilteredNotes(notes, selected, filterMode)
    /\ notes' = notesAfterFilter(notes, selected)
    /\ op' = "getFilteredNotes"
    /\ UNCHANGED <<people, videoId, videoUrl, currentTime, slot, storageFull, player, playerVars, selected,
                   filterMode, now, reads, msg, answer, docVars, parseVars, mediaVars>>

NextFilter == Filter

SpecFilter == InitFilter /\ [][NextFilter]_vars

\* -------------------------------------------------------------- the claims
\* the same notes, in whatever order
SameNotes(a, b) ==
    /\ Len(a) = Len(b)
    /\ \E f \in Permutations(1..Len(a)) : \A i \in 1..Len(a) : a[i] = b[f[i]]

RemoveAt(seq, j) == SubSeq(seq, 1, j - 1) \o SubSeq(seq, j + 1, Len(seq))

\* the names of a list that the Registry does not have, each once, in the
\* order met
RECURSIVE NewNames(_, _)
NewNames(registry, names) ==
    IF names = <<>> THEN <<>>
    ELSE IF Head(names) \in Range(registry)
         THEN NewNames(registry, Tail(names))
         ELSE <<Head(names)>> \o NewNames(Append(registry, Head(names)), Tail(names))

\* a step of addNote(text, ids, ts)
AddNoteStep(text, ids, ts) ==
    /\ Len(notes) < MaxNotes
    /\ Ran("addNote", addNote(Cur, text, ids, ts, now), "none")

\* a step of updateNote(id, text, ids, ts)
UpdateNoteStep(id, text, ids, ts) ==
    Ran("updateNote", updateNote(Cur, id, text, ids, ts, now), "none")

\* C1: addNote(text, identities, timestamp) with text that is not blank adds
\* exactly one Note, with the trimmed text, the non-blank identities in order
\* and the given timestamp; the Notes stored before are all still there,
\* unchanged; the names not yet registered are appended to the Registry in
\* the order met
C1_AddNoteAddsTheGivenNote ==
    [][\A text \in TextInputs, ids \in IdentityInputs, ts \in Times :
          (Trim(text) # <<>> /\ AddNoteStep(text, ids, ts)) =>
              /\ Len(notes') = Len(notes) + 1
              /\ \E j \in 1..Len(notes') :
                    /\ notes'[j].text = Trim(text)
                    /\ notes'[j].people = SelectSeq(ids, NonBlank)
                    /\ notes'[j].timestamp = ts
                    /\ SameNotes(RemoveAt(notes', j), notes)
              /\ people' = people \o NewNames(people, SelectSeq(ids, NonBlank))
      ]_vars

\* C2: a render (here the one a change of the filter selection runs) does
\* not modify the Store
C2_RenderLeavesStore == [][SelectPeople => notes' = notes]_vars

\* C3: parseTimestamp on a string M+:SS whose seconds part is < 60 returns
\* minutes*60 + seconds
C3_MinSecValue ==
    (parsed # NotParsed /\ timeMatch(input) /\ matchSecs(input) < 60)
        => parsed = Num(matchMinutes(input) * 60 + matchSecs(input))

\* C4: parseTimestamp on a string M+:SS whose seconds part is >= 60 returns
\* null
C4_MinSecOverflowFails ==
    (parsed # NotParsed /\ timeMatch(input) /\ matchSecs(input) >= 60)
        => parsed = Null

\* a document that does not parse, or has neither the shape of a named
\* project nor that of a flat export
Malformed(doc) == Throws(doc) \/ (doc.kind = "flat" /\ ~doc.hasLists)

ProjectUnchanged == UNCHANGED <<people, notes, videoId, videoUrl>>

\* C5: the load of a malformed document reports failure and leaves people,
\* notes and the video reference as they were (a loadProject that hands the
\* file on to importData has not reported yet)
C5_MalformedLoadFails ==
    [][\A r \in reads :
          (Malformed(r.file.doc) /\ (ImportDone(r) \/ LoadDone(r))) =>
              /\ ProjectUnchanged
              /\ \/ msg' = "error"
                 \/ [via |-> "importData", file |-> r.file] \in reads'
      ]_vars

\* C6: loading the document that an export of the present state produces
\* (flat through importData, named through loadProject) leaves people, notes
\* and the video reference as they are
C6_ExportLoadRoundTrip ==
    [][\A r \in reads :
          (\/ (ImportDone(r) /\ r.file.doc = exportData(Cur))
           \/ (LoadDone(r) /\ r.file.doc = saveProjectAs(Cur))) =>
              ProjectUnchanged
      ]_vars

\* a load of a well-formed document r through the loader for its shape
\* (importData for a flat export, loadProject for a named project), and the
\* object the loader takes the fields from
LoadSucceeds(r) ==
    /\ ~Malformed(r.file.doc)
    /\ \/ ImportDone(r) /\ r.file.doc.kind = "flat"
       \/ LoadDone(r) /\ IsNamed(r.file.doc)

BodyOf(r) ==
    IF r.via = "importData" THEN importBody(r.file.doc) ELSE r.file.doc

\* C7: after a successful load people and notes are the document's lists
\* (the notes in whatever order) and the video reference is the document's,
\* whether or not the document carries a video id
C7_LoadReplacesWholesale ==
    [][\A r \in reads :
          LoadSucceeds(r) =>
              /\ people' = PeopleOrEmpty(BodyOf(r))
              /\ SameNotes(notes', NotesOrEmpty(BodyOf(r)))
              /\ videoId' = BodyOf(r).youtubeId
              /\ videoUrl' = BodyOf(r).videoUrl
      ]_vars

\* C8: updateNote with text that is blank changes no Note
C8_BlankUpdateIsNoOp ==
    [][\A i \in 1..Len(notes), text \in TextInputs, ids \in IdentityInputs,
          ts \in Times :
          (Trim(text) = <<>> /\ UpdateNoteStep(notes[i].id, text, ids, ts)) =>
              notes' = notes
      ]_vars

\* C9: every Note of the Store has text that is not blank and a
\* timestamp >= 0
C9_NotesAreValid ==
    \A i \in 1..Len(notes) :
        Trim(notes[i].text) # <<>> /\ notes[i].timestamp >= 0

\* C10: the Registry holds no name twice
C10_RegistryHasNoDuplicates ==
    \A i, j \in 1..Len(people) : people[i] = people[j] => i = j

\* C11: any two Notes of the Store have different ids, also when they were
\* added in immediate succession
C11_NoteIdsAreDistinct ==
    \A i, j \in 1..Len(notes) : notes[i].id = notes[j].id => i = j

\* C14: with nothing selected the filter gives all Notes of the Store,
\* ascending by timestamp, and of two Notes with the same timestamp the one
\* inserted earlier comes first (createdAt is the clock reading at insertion;
\* nothing is said of two Notes inserted at the same reading)
C14_EmptySelectionKeepsInsertionOrder ==
    LET r == getFilteredNotes(notes, {}, filterMode)
    IN  /\ SameNotes(r, notes)
        /\ \A i, j \in 1..Len(r) :
              i < j =>
                  \/ r[i].timestamp < r[j].timestamp
                  \/ /\ r[i].timestamp = r[j].timestamp
                     /\ r[i].createdAt <= r[j].createdAt

\* the k-th of the positions of a list that do not hold name
KeptPosition(seq, name, k) ==
    LET kept == {i \in 1..Len(seq) : seq[i] # name}
    IN  CHOOSE i \in kept : Cardinality({j \in kept : j < i}) = k - 1

\* a step of removePerson(name)
RemovePersonStep(name) == Ran("removePerson", removePerson(Cur, name), "none")

\* C15: removePerson(name) takes every occurrence of name out of the
\* Registry, keeps the other entries in their order, leaves every Note as
\* it is, and name is no longer among the names offered and selected in the
\* filter
C15_RemovePersonLeavesNotes ==
    [][\A name \in Range(people) :
          RemovePersonStep(name) =>
              /\ name \notin Range(people')
              /\ Len(people') = Cardinality({i \in 1..Len(people) : people[i] # name})
              /\ \A k \in 1..Len(people') :
                    people'[k] = people[KeptPosition(people, name, k)]
              /\ notes' = notes
              /\ selected' = selected \ {name}
      ]_vars

\* removePerson ran, and a Note still lists the name the Registry no
\* longer has
C15_Witness ==
    /\ op = "removePerson"
    /\ x \notin Range(people)
    /\ \E i \in 1..Len(notes) : x \in Range(notes[i].people)

Ascending(ns) ==
    \A i, j \in 1..Len(ns) : i < j => ns[i].timestamp <= ns[j].timestamp

\* the Notes of a set, each once
EachOnce(ns, set) ==
    /\ Range(ns) = set
    /\ Len(ns) = Cardinality(set)

\* the Store of the example: A lists x, B lists x and y, C lists y, and A is
\* later in the video than B
ExampleStore ==
    /\ Len(notes) = 3
    /\ notes[1].people = <<x>>
    /\ notes[2].people = <<x, y>>
    /\ notes[3].people = <<y>>
    /\ notes[1].timestamp > notes[2].timestamp

\* C12: with a selection that is not empty and mode AND the filter gives
\* exactly the Notes that list every selected name, each once, ascending by
\* timestamp
C12_AndFilter ==
    (op = "getFilteredNotes" /\ selected # {} /\ filterMode = "and") =>
        /\ EachOnce(filtered, {n \in Range(notes) : selected \subseteq Range(n.people)})
        /\ Ascending(filtered)

\* the example: selection {x, y} under AND gives B alone
C12_Witness ==
    /\ op = "getFilteredNotes"
    /\ filterMode = "and"
    /\ selected = {x, y}
    /\ ExampleStore
    /\ filtered = <<notes[2]>>

\* C13: with a selection that is not empty and mode OR the filter gives
\* exactly the Notes that list at least one selected name, each once,
\* ascending by timestamp
C13_OrFilter ==
    (op = "getFilteredNotes" /\ selected # {} /\ filterMode = "or") =>
        /\ EachOnce(filtered, {n \in Range(notes) : selected \cap Range(n.people) # {}})
        /\ Ascending(filtered)

\* the example: selection {x} under OR gives A and B, B first as it is
\* earlier in the video
C13_Witness ==
    /\ op = "getFilteredNotes"
    /\ filterMode = "or"
    /\ selected = {x}
    /\ ExampleStore
    /\ filtered = <<notes[2], notes[1]>>

\* C20: on the same Store, selection and mode the filter of the generated
\* document returns the sequence the application's filter returns
C20_EmbeddedFilterIsTheFilter ==
    op = "getFilteredNotes" => embeddedFiltered = filtered

\* both filters ran on the example under AND with y selected, and gave B
\* and C
C20_Witness ==
    /\ op = "getFilteredNotes"
    /\ filterMode = "and"
    /\ selected = {y}
    /\ ExampleStore
    /\ Len(embeddedFiltered) = 2

\* C16: when the read of importData or loadProject completes, either
\* success is reported and people and notes are the document's, or an error
\* is reported and people, notes, the video reference and the slot are as
\* before, or (loadProject on a document that is no named project) nothing
\* is reported yet, nothing has changed and the file is read again
C16_LoadIsAllOrNothing ==
    [][\A r \in reads :
          (ImportDone(r) \/ LoadDone(r)) =>
              \/ /\ msg' = "success"
                 /\ people' = PeopleOrEmpty(BodyOf(r))
                 /\ SameNotes(notes', NotesOrEmpty(BodyOf(r)))
              \/ /\ msg' = "error"
                 /\ UNCHANGED <<people, notes, videoId, videoUrl, slot>>
              \/ /\ msg' = "none"
                 /\ [via |-> "importData", file |-> r.file] \in reads'
                 /\ UNCHANGED <<people, notes, videoId, videoUrl, slot>>
      ]_vars

\* a Note or a name the application held is gone after the step
Discards ==
    \/ ~(Range(notes) \subseteq Range(notes'))
    \/ ~(Range(people) \subseteq Range(people'))

\* C17: a step of resetProject, or of a load of a well-formed document
\* through the loader for its shape, that discards Notes or names follows
\* a confirmation the user gave, and a confirmation the user declined leaves
\* people, notes and the video reference as they were
C17_DiscardOnlyAfterConfirmation ==
    [][/\ (op' = "resetProject" /\ Discards) => answer' = "yes"
       /\ \A r \in reads : (LoadSucceeds(r) /\ Discards) => answer' = "yes"
       /\ answer' = "no" => UNCHANGED <<people, notes, videoId, videoUrl>>
      ]_vars

\* the controls with which the application adds, edits or deletes a Note or
\* a name, imports or loads a document, or generates a document
Mutators ==
    {"add-note-form", "add-person", "person-remove", "edit-btn", "delete-btn",
     "import-data", "import-file", "load-project", "load-project-file",
     "save-project-as", "save-project", "reset-project"}

\* the Note an object of the embedded literal reads as
ReadNote(j) ==
    [k \in DOMAIN j \cup {"updatedAt"} |->
        IF k \in DOMAIN j THEN j[k] ELSE Absent]

ReadNotes(js) == [i \in 1..Len(js) |-> ReadNote(js[i])]

\* C18: the opened document offers no control that adds, edits or deletes a
\* Note or a name, imports, loads or generates a document, and its notes and
\* people are those of the document, the notes in whatever order
C18_EmbeddedRuntimeIsFrozen ==
    embedded # NotOpened =>
        /\ EmbeddedOffers(html) \cap Mutators = {}
        /\ SameNotes(embedded.notes, html.notes)
        /\ embedded.people = html.people

\* the opened document was put in edit mode, x is selected under AND, the
\* video plays, and its notes are the document's in another order
C18_Witness ==
    /\ embedded # NotOpened
    /\ embedded.currentMode = "edit"
    /\ embedded.selected = {x}
    /\ embedded.filterMode = "and"
    /\ embedded.isPlaying
    /\ Len(embedded.notes) = 2
    /\ embedded.notes # html.notes

\* C19: the document generated from a project embeds the project's people
\* and notes and its video reference, and the document of a project without
\* a video makes no player when it is opened
C19_EmbeddedDataIsTheProject ==
    [][SaveProjectAsHTML =>
          LET e == embeddedConstructor(html')
          IN  /\ e.people = people
              /\ ReadNotes(e.notes) = notes
              /\ e.videoId = videoId
              /\ e.videoUrl = videoUrl
              /\ videoId = NullId => embeddedInit(e).player = NoPlayer
      ]_vars

\* the application as it is, with storage that takes the write
Working == [Cur EXCEPT !.storageFull = FALSE]

\* handler name ran to its end without a message and left in memory what it
\* leaves when storage works, and the slot as it was
InFull(name, got, working) ==
    Ran(name, got, "none") =>
        /\ people' = working.people
        /\ notes' = working.notes
        /\ selected' = working.selected
        /\ slot' = slot

\* C21: when the write to storage fails, addNote, updateNote, deleteNote,
\* addPerson and removePerson still run to their end without an error
\* message and leave in memory exactly what they leave when the write
\* succeeds, the names registered after the save included; only the slot
\* keeps its old value
C21_FailedSaveKeepsTheMutation ==
    [][storageFull =>
          /\ \A name \in NameInputs :
                InFull("addPerson", addPerson(Cur, name), addPerson(Working, name))
          /\ \A name \in Range(people) :
                InFull("removePerson", removePerson(Cur, name),
                       removePerson(Working, name))
          /\ \A text \in TextInputs, ids \in IdentityInputs,
                ts \in TimestampInputs :
                InFull("addNote", addNote(Cur, text, ids, ts, now),
                       addNote(Working, text, ids, ts, now))
          /\ \A i \in 1..Len(notes), text \in TextInputs,
                ids \in IdentityInputs, ts \in Times :
                InFull("updateNote",
                       updateNote(Cur, notes[i].id, text, ids, ts, now),
                       updateNote(Working, notes[i].id, text, ids, ts, now))
          /\ \A i \in 1..Len(notes) :
                InFull("deleteNote", deleteNote(Cur, notes[i].id),
                       deleteNote(Working, notes[i].id))
      ]_vars

\* addNote ran while storage threw: the Note and a name it brought are in
\* memory and not in the slot
C21_Witness ==
    /\ storageFull
    /\ op = "addNote"
    /\ msg = "none"
    /\ slot # NoSlot
    /\ Len(notes) > Len(slot.notes)
    /\ y \in Range(people)
    /\ y \notin Range(slot.people)

\* C22: whatever videos are loaded and sources chosen, the page has at most
\* one position-sampling interval running, and it is the one whose handle
\* the application holds: every start of the interval (player ready, local
\* metadata loaded, webcam started) stops the one before
C22_AtMostOneUpdateInterval ==
    /\ Cardinality(timers) <= 1
    /\ timers \subseteq {updateInterval}

\* the interval was started for the third time, with the webcam as the
\* source, and one interval is running
C22_Witness ==
    /\ handles = 3
    /\ currentSource = "webcam"
    /\ player = "ready"
    /\ timers = {3}

\* the load-project input was handed this file and turned it away with an
\* error message, reading nothing
TurnsAway(file) ==
    ENABLED (StartLoadProjectOf({file}) /\ msg' = "error" /\ reads' = reads)

\* C23: what loading a document does depends on its content only, not on
\* the extension of the file's name: of two files with the same content,
\* the load-project input turns away both or neither
C23_LoadIgnoresTheExtension ==
    \A f, g \in LoadFiles : f.doc = g.doc => (TurnsAway(f) <=> TurnsAway(g))

\* the position of the first "." of a string, 0 when it has none
DotAt(s) ==
    IF \E i \in 1..Len(s) : s[i] = "."
    THEN CHOOSE i \in 1..Len(s) : s[i] = "." /\ \A j \in 1..(i - 1) : s[j] # "."
    ELSE 0

\* the digits before and after the decimal point of a string
WholePart(s) == IF DotAt(s) = 0 THEN s ELSE SubSeq(s, 1, DotAt(s) - 1)

FractionPart(s) == IF DotAt(s) = 0 THEN <<>> ELSE SubSeq(s, DotAt(s) + 1, Len(s))

\* the whole string is an unsigned decimal numeral: digits, with at most
\* one decimal point among them
PlainNumeral(s) ==
    /\ AllDigits(WholePart(s))
    /\ AllDigits(FractionPart(s))
    /\ WholePart(s) \o FractionPart(s) # <<>>

\* the number such a numeral denotes
NumeralValue(s) ==
    LET fz == DropTrailingZeros(FractionPart(s))
    IN  [nan |-> FALSE, neg |-> FALSE, num |-> ToNat(WholePart(s) \o fz),
         exp |-> Len(fz)]

\* the whole string is a numeral with a minus sign, for a number below zero
NegativeNumeral(s) ==
    /\ s # <<>>
    /\ Head(s) = "-"
    /\ PlainNumeral(Tail(s))
    /\ NumeralValue(Tail(s)).num # 0

\* the string, white space around it aside, is a numeral for a number that
\* is not below zero (-0 is one)
NonNegativeNumber(s) ==
    LET t == Trim(s)
    IN  \/ PlainNumeral(t)
        \/ /\ t # <<>>
           /\ Head(t) = "-"
           /\ PlainNumeral(Tail(t))
           /\ NumeralValue(Tail(t)).num = 0

\* C24: parseTimestamp returns null for every string that is neither as a
\* whole a number >= 0 nor of the form M+:SS, such as a number followed by
\* other characters or a colon form with one digit of seconds
C24_OtherStringsFail ==
    (parsed # NotParsed /\ ~NonNegativeNumber(input) /\ ~timeMatch(input))
        => parsed = Null

\* C25: parseTimestamp returns null for the empty string and for every
\* numeral of a number below zero, such as "-5"
C25_EmptyAndNegativeFail ==
    (parsed # NotParsed /\ (input = <<>> \/ NegativeNumeral(input)))
        => parsed = Null

\* "-5" was parsed, to null
C25_Witness ==
    /\ input = <<"-", "5">>
    /\ parsed = Null

\* C26: parseTimestamp on a string that is as a whole an unsigned decimal
\* numeral returns the number the numeral denotes, fraction included
C26_NumberIsReturnedAsIs ==
    (parsed # NotParsed /\ PlainNumeral(input)) => parsed = NumeralValue(input)

\* "9.5" was parsed, to nine and a half
C26_Witness ==
    /\ input = <<"9", ".", "5">>
    /\ parsed = [nan |-> FALSE, neg |-> FALSE, num |-> 95, exp |-> 1]

\* the string is empty or white space only
IsBlank(p) == \A i \in 1..Len(p) : IsSpace(p[i])

\* a list of names without its blank entries, the others in their order
RECURSIVE DropBlank(_)
DropBlank(names) ==
    IF names = <<>> THEN <<>>
    ELSE IF IsBlank(Head(names)) THEN DropBlank(Tail(names))
         ELSE <<Head(names)>> \o DropBlank(Tail(names))

\* C27: addNote with a text that is empty or white space only changes
\* neither the Store nor the Registry nor the slot; a Note that is accepted
\* is stored without the blank entries of its identity list, and no blank
\* entry is registered
C27_BlankTextAndBlankIdentities ==
    [][\A text \in TextInputs, ids \in IdentityInputs, ts \in TimestampInputs :
          AddNoteStep(text, ids, ts) =>
              IF IsBlank(text)
              THEN /\ notes' = notes
                   /\ people' = people
                   /\ slot' = slot
              ELSE /\ Len(notes') = Len(notes) + 1
                   /\ \E j \in 1..Len(notes') :
                         /\ SameNotes(RemoveAt(notes', j), notes)
                         /\ notes'[j].people = DropBlank(ids)
                   /\ Range(people') \ Range(people) \subseteq Range(DropBlank(ids))
                   /\ \A k \in 1..Len(people') : ~IsBlank(people'[k])
      ]_vars

\* addNote stored a Note whose identity list came with a blank entry, and
\* the Note and the Registry have the two names only
C27_Witness ==
    /\ op = "addNote"
    /\ \E j \in 1..Len(notes) : notes[j].id = now /\ notes[j].people = <<y, x>>
    /\ Range(people) = {x, y}

\* a step of addPerson(name)
AddPersonStep(name) == Ran("addPerson", addPerson(Cur, name), "none")

\* C28: addPerson(name) leaves the Registry as it is when name is empty or
\* is an entry already, compared character by character, capitals
\* included; otherwise name is appended at the end, the entries before it
\* stay in their order, and the Registry is persisted (when storage takes
\* the write)
C28_AddPersonAppendsOnce ==
    [][\A name \in NameInputs :
          AddPersonStep(name) =>
              IF name = <<>> \/ \E i \in 1..Len(people) : people[i] = name
              THEN /\ people' = people
                   /\ slot' = slot
              ELSE /\ Len(people') = Len(people) + 1
                   /\ people'[Len(people')] = name
                   /\ \A i \in 1..Len(people) : people'[i] = people[i]
                   /\ ~storageFull =>
                         /\ slot' # NoSlot
                         /\ slot'.people = people'
      ]_vars

\* addPerson appended x to a Registry that held X, and the slot has both
C28_Witness ==
    /\ op = "addPerson"
    /\ people = <<CapitalX, x>>
    /\ slot # NoSlot
    /\ slot.people = <<CapitalX, x>>

\* the ids the Store has, and one it has not
IdsAsked == {notes[i].id : i \in 1..Len(notes)} \cup {UnusedId}

\* C29: updateNote(id, text, identities, timestamp) changes nothing when no
\* Note has the id; otherwise one Note with the id gets the text, the
\* non-blank identities and the timestamp given and the time of the call as
\* its last-modified time, and keeps its id and creation time; every other
\* Note stays as it is, and the names not yet registered are appended to
\* the Registry as addNote does
C29_UpdateNoteEditsOneNote ==
    [][\A id \in IdsAsked, text \in TextInputs, ids \in IdentityInputs,
         ts \in Times :
          UpdateNoteStep(id, text, ids, ts) =>
              IF \A i \in 1..Len(notes) : notes[i].id # id
              THEN /\ notes' = notes
                   /\ people' = people
                   /\ slot' = slot
              ELSE /\ \E j \in 1..Len(notes), k \in 1..Len(notes') :
                         /\ notes[j].id = id
                         /\ notes'[k].id = id
                         /\ notes'[k].createdAt = notes[j].createdAt
                         /\ notes'[k].text = Trim(text)
                         /\ notes'[k].people = DropBlank(ids)
                         /\ notes'[k].timestamp = ts
                         /\ notes'[k].updatedAt = now
                         /\ SameNotes(RemoveAt(notes', k), RemoveAt(notes, j))
                   /\ people' = people \o NewNames(people, DropBlank(ids))
      ]_vars

\* updateNote edited one of two Notes: it has the new names and a
\* last-modified time, the other Note has neither
C29_Witness ==
    /\ op = "updateNote"
    /\ Len(notes) = 2
    /\ \E k, l \in 1..2 :
          /\ notes[k].people = <<y, x>>
          /\ notes[k].updatedAt = now
          /\ notes[l].updatedAt = Absent
          /\ notes[l].people = <<>>

\* a step of deleteNote(id)
DeleteNoteStep(id) == Ran("deleteNote", deleteNote(Cur, id), "none")

\* C30: deleteNote(id) takes the Note with the id out of the Store and
\* nothing else: every other Note is kept, nothing changes when no Note has
\* the id, and the Registry stays as it is, the names of the deleted Note
\* included
C30_DeleteNoteRemovesOneNote ==
    [][\A id \in IdsAsked :
          DeleteNoteStep(id) =>
              /\ people' = people
              /\ IF \A i \in 1..Len(notes) : notes[i].id # id
                 THEN notes' = notes
                 ELSE \E j \in 1..Len(notes) :
                         /\ notes[j].id = id
                         /\ SameNotes(notes', RemoveAt(notes, j))
      ]_vars

\* nothing of the project changed and an error message is shown
RejectedWithMessage ==
    /\ people' = people
    /\ notes' = notes
    /\ slot' = slot
    /\ msg' = "error"

\* the edit flow got, at its timestamp prompt, a string the parser rejects
EditRejects ==
    op' = "editNote" =>
        \A str \in FormTimestamps \cup {<<>>} :
            parseTimestamp(str) = Null =>
                \A i \in 1..Len(notes), text \in FormTexts, ids \in PeopleOptions :
                    EditNote(notes[i].id, text, ids, str, "none")
                        => RejectedWithMessage

\* the form is submitted while its timestamp field holds a string that the
\* parser rejects
BadFieldSubmitted ==
    /\ op' = "submitNote"
    /\ timestampField # <<>>
    /\ parseTimestamp(timestampField) = Null

\* C31 as stated: a submission of the add-note form, or an edit, with a
\* timestamp string that the parser rejects adds and modifies no Note,
\* leaves people, notes and the slot as they are and shows an error message
C31_RejectedTimestampShowsError ==
    [][/\ BadFieldSubmitted =>
             \A text \in FormTexts, ids \in PeopleOptions :
                 SubmitNote(text, ids) => RejectedWithMessage
       /\ EditRejects
      ]_vars

\* C31, amended: the same for a submission whose note text is not empty;
\* with an empty text the form returns before it looks at the timestamp,
\* changing nothing and showing nothing
C31_RejectedTimestampWithText ==
    [][/\ BadFieldSubmitted =>
             \A text \in FormTexts, ids \in PeopleOptions :
                 SubmitNote(text, ids) =>
                     IF text # <<>> THEN RejectedWithMessage
                     ELSE /\ people' = people
                          /\ notes' = notes
                          /\ slot' = slot
                          /\ msg' = "none"
       /\ EditRejects
      ]_vars

\* the form was submitted with "a" in the timestamp field: the error is
\* shown, the field keeps the string and the Store is as it was, empty
C31_Witness ==
    /\ op = "submitNote"
    /\ msg = "error"
    /\ timestampField = <<"a">>
    /\ notes = <<>>

\* the active source is not ready: there is no player or no video element,
\* or the video is not loaded yet
SourceNotReady ==
    \/ ~isVideoLoaded
    \/ currentSource = "youtube" /\ player = "none"
    \/ currentSource # "youtube" /\ ~videoElement

\* nothing is sought and the Store, the Registry and the video stay
NoSeekNoChange ==
    /\ sought' = sought
    /\ UNCHANGED <<people, notes, videoId, videoUrl, slot>>

\* C32: a seek, a jump or a play/pause while the active source is not
\* ready, and every seek and jump on the camera source, seeks nothing and
\* changes neither the Store, the Registry nor the video reference
C32_NoSeekWhileNotReady ==
    [][/\ (SourceNotReady \/ currentSource = "webcam")
             /\ (SeekToTime \/ JumpTime) => NoSeekNoChange
       /\ SourceNotReady /\ TogglePlayPause => NoSeekNoChange
      ]_vars

\* C33: addNote stores the current playback position when the timestamp is
\* omitted, and stores a supplied timestamp t >= 0 exactly, for every such
\* t, 0 included
C33_AddNoteKeepsZero ==
    [][\A text \in TextInputs, ids \in IdentityInputs, ts \in TimestampInputs :
          (Trim(text) # <<>> /\ AddNoteStep(text, ids, ts)) =>
              \E j \in 1..Len(notes') :
                  /\ notes'[j].timestamp = IF ts = Absent THEN currentTime ELSE ts
                  /\ SameNotes(RemoveAt(notes', j), notes)
      ]_vars

\* the time the form is to give the Note: the field's when the field is not
\* empty, else the captured time when there is one, else the position
TimeByPriority ==
    IF timestampField # <<>> THEN Seconds(parseTimestamp(timestampField))
    ELSE IF capturedTimestamp # Absent THEN capturedTimestamp
    ELSE currentTime

\* the form is submitted with a text and with a field that is empty or parses
Submitted(text, ids) ==
    /\ Trim(text) # <<>>
    /\ timestampField # <<>> => parseTimestamp(timestampField) # Null
    /\ SubmitNote(text, ids)

\* C34: the Note the form adds has the time of the field when the field is
\* not empty, else the captured time when one is set, whatever its value,
\* else the playback position; typing in the field clears a captured time,
\* and so does a submission
C34_FormTimestampPriority ==
    [][/\ \A text \in FormTexts, ids \in PeopleOptions :
             Submitted(text, ids) =>
                 /\ \E j \in 1..Len(notes') :
                       /\ notes'[j].timestamp = TimeByPriority
                       /\ SameNotes(RemoveAt(notes', j), notes)
                 /\ capturedTimestamp' = Absent
       /\ TypeTimestamp => capturedTimestamp' = Absent
      ]_vars

\* the handlers that change the project
Mutations ==
    {"addPerson", "removePerson", "addNote", "updateNote", "deleteNote",
     "loadOnload", "importOnload", "resetProject"}

\* one of them ran, changed the project, and localStorage took its save
MutationSaved ==
    /\ op' \in Mutations
    /\ <<people, notes, videoId, videoUrl>>' # <<people, notes, videoId, videoUrl>>
    /\ ~storageFull

\* C35: after each completed mutation whose save succeeds the slot holds
\* exactly the people, the notes in their order, the videoId and the
\* videoUrl of the application, so that a restart from the slot gives the
\* same state
C35_SlotIsTheState ==
    [][MutationSaved =>
          /\ slot' # NoSlot
          /\ slot'.people = people'
          /\ slot'.notes = notes'
          /\ slot'.videoId = videoId'
          /\ slot'.videoUrl = videoUrl'
      ]_vars

\* C36: however many calls of loadVideoFromId come before the IFrame API
\* is ready, at most one player is made once it is, and the player there
\* is when no call waits any more is that of the video asked for last
C36_OnePlayerForTheLastVideo ==
    /\ instances <= 1
    /\ (player # "none" /\ retries = <<>>) => playerVideo = videoId

\* C37: once a confirmed resetProject is through there is no player, and
\* none is made until a video is loaded again, whatever call of
\* createPlayer waited on its timeout: a player implies a videoId
C37_PlayerImpliesVideo == player # "none" => videoId # NullId

\* the read r completes and its document is installed
Commits(r) ==
    \/ ImportDone(r) /\ ~Throws(r.file.doc)
    \/ LoadDone(r) /\ IsNamed(r.file.doc)

\* the lists of the document the loader installs
ListsOf(r) ==
    LET body == IF r.via = "importData" THEN importBody(r.file.doc)
                ELSE r.file.doc
    IN  <<PeopleOrEmpty(body), NotesOrEmpty(body)>>

\* C38: what a handler changed between the start of a read and its end
\* does not survive the load: when the load commits, people and notes are
\* exactly the lists of its document, and of two loads that overlap the
\* one whose read completes last gives both lists
C38_LoadReplacesBothLists ==
    [][\A r \in reads : Commits(r) => <<people', notes'>> = ListsOf(r)]_vars

\* loadVideoFromId(v) has just run while the IFrame API was not ready
AskedEarly(v) == op = "loadVideo" /\ ~apiReady /\ videoId = v

\* C39: when loadVideoFromId is called while the IFrame API is not ready,
\* the making of the player is tried again and again, and if the API gets
\* ready at last a player for the video asked for is made at last; when a
\* player reports ready the video is marked loaded and the position timer
\* runs
C39_PlayerIsMadeOnceTheApiLoads ==
    /\ <>apiReady =>
           \A v \in EarlyVideoIds :
               AskedEarly(v) ~> (player # "none" /\ playerVideo = v)
    /\ [][PlayerReady => isVideoLoaded' /\ updateInterval' \in timers']_vars

\* a call of createPlayer that waited on its timeout has made the player of
\* the video asked for, and the player has reported ready
C39_Witness ==
    /\ op = "onPlayerReady"
    /\ player = "ready"
    /\ playerVideo = videoId
    /\ retries = <<>>
    /\ instances = 1
    /\ isVideoLoaded
    /\ updateInterval \in timers

\* C40: the recording clock runs only while a recording is on, and a
\* recording is paused only while it is on, in whatever order the
\* recording is started, paused, resumed and ended and the source is
\* switched, a start without a webcam stream included
C40_ClockOnlyWhileRecording ==
    /\ isRecordingTime => isRecording
    /\ isPaused => isRecording

====
